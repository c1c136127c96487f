-------------------------- MODULE DbgpSessionProofs -------------------------
(***************************************************************************)
(* Proofs about DbgpSession, for all files, variables, stacks, refusals,   *)
(* users and bounds.                                                       *)
(***************************************************************************)
EXTENDS DbgpSession, FiniteSetTheorems, TLAPS

(***************************************************************************)
(* The inductive invariant.  TypeOK alone is not inductive: what a handler *)
(* does with the document depends on there being one, the written command  *)
(* on there being one, and the row to hang children under on the row still *)
(* being there.                                                            *)
(***************************************************************************)

(* server_state and action_list_ptr speak of the same list. *)
ListMatchesState == cs.server_state # "INPUT" => cs.action_list = cs.server_state

(* A document is processed on an open connection, by a list. *)
Reading ==
    dispatching => /\ conn = "open"
                   /\ cs.message \in Messages
                   /\ cs.server_state # "INPUT"

HintsAreRows == ui.vars.hints \subseteq ui.vars.rows

IInv ==
    /\ TypeOK
    /\ PointerInList
    /\ ListMatchesState
    /\ Reading
    /\ OutIffCommand
    /\ RowsOnlyWhenConnected
    /\ OnePagePerFile
    /\ HintsAreRows
    /\ FetchRowIsShown
-----------------------------------------------------------------------------
(* The lists end in NULL and nowhere else, and no skip or jump leaves them. *)

Selects == { "process_select_file_line_for_stack_0",
             "process_select_file_line_for_stack_0_no_check",
             "process_select_file_line_for_selected_stack",
             "process_select_file_line_for_selected_stack_no_check" }

GoodItem(list, p) ==
    /\ list[p].param \in Nat
    /\ list[p].func # "NULL" => p + 1 \in DOMAIN list
    /\ list[p].func \in Selects => p + list[p].param + 1 \in DOMAIN list
    /\ list[p].func = "process_jump" => p + Jump(list[p].param) + 1 \in DOMAIN list

(* Every item of the initial list that is not its NULL has a next one. *)
LEMMA InitialGood == \A p \in DOMAIN initial_action_list : GoodItem(initial_action_list, p)
  BY DEF GoodItem, Selects, Jump, initial_action_list, Item

(* So has every item of the list run at a stop, *)
LEMMA BreakGood == \A p \in DOMAIN break_action_list : GoodItem(break_action_list, p)
  BY DEF GoodItem, Selects, Jump, break_action_list, Item

(* of the list run when a script has ended, *)
LEMMA StoppedGood == \A p \in DOMAIN stopped_action_list : GoodItem(stopped_action_list, p)
  BY DEF GoodItem, Selects, Jump, stopped_action_list, Item

(* of the list run when a frame is selected, *)
LEMMA SelectGood ==
    \A p \in DOMAIN select_stack_action_list : GoodItem(select_stack_action_list, p)
  BY DEF GoodItem, Selects, Jump, select_stack_action_list, Item

(* and of the list that fetches a property. *)
LEMMA FetchGood ==
    \A p \in DOMAIN fetch_property_action_list : GoodItem(fetch_property_action_list, p)
  BY DEF GoodItem, Selects, Jump, fetch_property_action_list, Item

(* Hence from no item of any list can the loop leave the list. *)
LEMMA ListsGood ==
  ASSUME NEW list \in ListNames, NEW p \in DOMAIN ActionList(list)
  PROVE  GoodItem(ActionList(list), p)
  BY InitialGood, BreakGood, StoppedGood, SelectGood, FetchGood
     DEF ListNames, ActionList

(* A list that is chosen is entered at an item it has. *)
LEMMA ListsStart ==
  ASSUME NEW list \in ListNames
  PROVE  1 \in DOMAIN ActionList(list)
  BY DEF ListNames, ActionList, initial_action_list, break_action_list,
         stopped_action_list, select_stack_action_list, fetch_property_action_list
-----------------------------------------------------------------------------
(* Typing of what the handlers compute. *)

(* async_accept makes a well-typed ClientState. *)
LEMMA NewTyped == NewClientState \in ClientStates
  BY DEF NewClientState, ClientStates

(* The emptied stack and variable views are well typed. *)
LEMMA EmptyViewsTyped ==
    EmptyVarView \in VarViews /\ NoStack \in [stop : Nat, frames : Seq(Files)]
  BY DEF EmptyVarView, VarViews, NoKids, NoStack

(* What the fields of a ClientState hold. *)
LEMMA FieldTypes ==
  ASSUME NEW c \in ClientStates
  PROVE  /\ c.server_state \in {"INPUT"} \cup ListNames
         /\ c.action_list_ptr \in Nat
         /\ c.command \in Commands \cup {NULL}
         /\ c.out \in BOOLEAN
         /\ c.last_tid \in Nat
         /\ c.last_source_file \in Files \cup {NULL}
         /\ c.last_selected_stack_frame \in Int
         /\ c.path_string \in VarRows \cup {NULL}
         /\ c.last_iter \in Places \cup {NULL}
         /\ c.nr_of_stack_frames \in Nat
         /\ c.stack_info_size \in Nat
  BY DEF ClientStates

(* Null is neither a document nor a command: it has no fields. *)
LEMMA FramesTyped ==
  ASSUME NEW m \in Messages
  PROVE  /\ Frames(m) \in Seq(Files)
         /\ Frames(m) # << >> => m.data \in [stop : Nat, frames : Seq(Files)]
         /\ m.kind = "stack" => m.data \in [stop : Nat, frames : Seq(Files)]
         /\ m.kind = "source" => m.data \in Files
         /\ m.kind = "init" => m.data \in Files
         /\ m.kind = "property" => m.data \in VarRows
         /\ m.kind = "context" => m.data \in [stop : Nat, level : Int]
  BY DEF Messages, Frames

(* The commands the do_* functions and the clicks write are commands. *)
LEMMA CommandTyped ==
  ASSUME NEW t \in Nat
  PROVE  /\ \A verb \in ButtonVerbs \cup {"stack_get"} : Cmd(verb, t, NULL) \in Commands
         /\ \A f \in Files \cup {NULL} : Cmd("source", t, f) \in Commands
         /\ \A i \in Int : Cmd("context_get", t, i) \in Commands
         /\ \A r \in VarRows : Cmd("property_get", t, r) \in Commands
         /\ \A n \in Nat : Cmd("breakpoint_set", t, n) \in Commands
         /\ \A n \in Nat : Cmd("feature_set", t, n) \in Commands
  BY DEF Cmd, Commands

(* A well-typed command leaves the ClientState well typed, *)
LEMMA WithCommandTyped ==
  ASSUME NEW c \in ClientStates, NEW verb, NEW arg,
         \A t \in Nat : Cmd(verb, t, arg) \in Commands
  PROVE  WithCommand(c, verb, arg) \in ClientStates
<1>1. c.last_tid + 1 \in Nat
  BY FieldTypes
<1>2. Cmd(verb, c.last_tid + 1, arg) \in Commands
  BY <1>1
<1> QED
  BY <1>1, <1>2, Zenon DEF WithCommand, ClientStates

(* and leaves the list, the watch and the document alone. *)
LEMMA WithCommandFields ==
  ASSUME NEW c \in ClientStates, NEW verb, NEW arg
  PROVE  LET d == WithCommand(c, verb, arg)
         IN  /\ d.command = Cmd(verb, c.last_tid + 1, arg)
             /\ d.server_state = c.server_state
             /\ d.action_list = c.action_list
             /\ d.action_list_ptr = c.action_list_ptr
             /\ d.path_string = c.path_string
             /\ d.out = c.out
             /\ d.message = c.message
  BY DEF WithCommand, ClientStates

(* What the loop does after a function has returned: one item on, and the
   watch for writing when it stops with a command. *)
LEMMA ReturnsTyped ==
  ASSUME NEW c \in ClientStates, NEW v, Returns(v, c)
  PROVE  /\ cs' \in ClientStates
         /\ dispatching' = (v = NON_INTERACTIVE)
         /\ cs'.action_list_ptr = c.action_list_ptr + 1
         /\ cs'.out <=> c.out \/ (v # NON_INTERACTIVE /\ c.command # NULL)
         /\ cs'.command = c.command
         /\ cs'.server_state = c.server_state
         /\ cs'.action_list = c.action_list
         /\ cs'.message = c.message
         /\ cs'.path_string = c.path_string
<1> DEFINE out == c.out \/ (v # NON_INTERACTIVE /\ c.command # NULL)
<1>1. c.action_list_ptr + 1 \in Nat
  BY FieldTypes
<1>2. out \in BOOLEAN
  BY FieldTypes
<1>3. cs' = [c EXCEPT !.action_list_ptr = @ + 1, !.out = out]
  BY Zenon DEF Returns
<1>4. cs' \in ClientStates
  BY <1>1, <1>2, <1>3, Zenon DEF ClientStates
<1>5. cs'.out = out
  <2> HIDE DEF out
  <2> QED
    BY <1>3 DEF ClientStates
<1>6. /\ cs'.action_list_ptr = c.action_list_ptr + 1
      /\ cs'.command = c.command
      /\ cs'.server_state = c.server_state
      /\ cs'.action_list = c.action_list
      /\ cs'.message = c.message
      /\ cs'.path_string = c.path_string
  <2> HIDE DEF out
  <2> QED
    BY <1>3 DEF ClientStates
<1> QED
  BY <1>4, <1>5, <1>6 DEF Returns
-----------------------------------------------------------------------------
(* The initial state. *)
LEMMA InitTyped == Init => TypeOK
<1> SUFFICES ASSUME Init PROVE TypeOK
  OBVIOUS
<1>1. clicks \in Nat /\ accepts \in Nat
  BY DEF Init
<1>2. EngineTypeOK
  BY DEF Init, EngineInit, EngineTypeOK, Phases
<1>3. ui \in Widgets
  <2>1. << >> \in Seq([file : Files, text : Files])
    OBVIOUS
  <2>2. NULL \in Files \cup {NULL} /\ {} \in SUBSET Places
    OBVIOUS
  <2>3. ui = [ tabs |-> << >>, current |-> NULL, arrows |-> {},
               stack |-> NoStack, vars |-> EmptyVarView ]
    BY DEF Init, ClientInit
  <2> QED
    BY <2>1, <2>2, <2>3, EmptyViewsTyped, Zenon DEF Widgets
<1>4. /\ conn \in {"none", "open", "freed"}
      /\ fault \in {"none", "null_deref", "use_after_free"}
      /\ dispatching \in BOOLEAN
      /\ cs \in ClientStates
  BY NewTyped DEF Init, ClientInit
<1>5. toEngine \in Seq(Commands) /\ toClient \in Seq(Messages)
  BY DEF Init
<1> QED
  BY <1>1, <1>2, <1>3, <1>4, <1>5 DEF TypeOK, ClientTypeOK

(* The invariant holds before the first connection. *)
LEMMA InitIInv == Init => IInv
<1> SUFFICES ASSUME Init PROVE IInv
  OBVIOUS
<1>1. TypeOK
  BY InitTyped
<1>2. cs.server_state = "INPUT" /\ ~ cs.out /\ cs.command = NULL
  BY DEF Init, ClientInit, NewClientState
<1>3. /\ ui.tabs = << >> /\ ui.vars.rows = {} /\ ui.vars.hints = {}
      /\ ui.stack.frames = << >>
  BY DEF Init, ClientInit, EmptyVarView, NoStack
<1>4. dispatching = FALSE
  BY DEF Init, ClientInit
<1> QED
  BY <1>1, <1>2, <1>3, <1>4
     DEF IInv, PointerInList, ListMatchesState, Reading, OutIffCommand,
         RowsOnlyWhenConnected, OnePagePerFile, HintsAreRows, FetchRowIsShown
-----------------------------------------------------------------------------
(* One item of a list. *)

(* A list that runs stands on one of its items. *)
LEMMA OnItem ==
  ASSUME IInv, dispatching
  PROVE  LET list == ActionList(cs.action_list)
             p    == cs.action_list_ptr
         IN  /\ cs.action_list = cs.server_state
             /\ cs.server_state \in ListNames
             /\ p \in Nat /\ p >= 1
             /\ p \in DOMAIN list
             /\ GoodItem(list, p)
             /\ CurrentItem = list[p]
             /\ conn = "open"
             /\ cs.message \in Messages
             /\ cs \in ClientStates
             /\ ui \in Widgets
<1>1. cs \in ClientStates /\ ui \in Widgets
  BY DEF IInv, TypeOK, ClientTypeOK
<1>2. /\ cs.server_state # "INPUT" /\ conn = "open" /\ cs.message \in Messages
      /\ cs.action_list = cs.server_state
      /\ cs.action_list_ptr \in DOMAIN ActionList(cs.action_list)
  BY DEF IInv, Reading, ListMatchesState, PointerInList
<1>3. cs.server_state \in ListNames /\ cs.action_list_ptr \in Nat
  BY <1>1, <1>2, FieldTypes
<1>4. GoodItem(ActionList(cs.action_list), cs.action_list_ptr)
  BY <1>2, <1>3, ListsGood
<1>5. cs.action_list_ptr >= 1
  BY <1>2, <1>3
     DEF ListNames, ActionList, initial_action_list, break_action_list,
         stopped_action_list, select_stack_action_list, fetch_property_action_list
<1> QED
  BY <1>1, <1>2, <1>3, <1>4, <1>5 DEF CurrentItem

(* What every item must leave behind for the invariant to survive it. *)
LEMMA DispatchKeeps ==
  ASSUME IInv, dispatching,
         NEW c \in ClientStates, NEW v, Returns(v, c),
         c.server_state = cs.server_state,
         c.action_list = cs.action_list,
         c.message = cs.message,
         c.action_list_ptr + 1 \in DOMAIN ActionList(cs.action_list),
         c.out => c.command # NULL,
         c.command # NULL => c.out \/ v # NON_INTERACTIVE,
         ui' \in Widgets, OnePagePerFile', HintsAreRows',
         cs.server_state = "FETCH_PROPERTY" /\ c.action_list_ptr + 1 <= 2
            => c.path_string \in ui'.vars.rows,
         UNCHANGED <<conn, fault, wires, engine, userVars>>
  PROVE  IInv'
<1>1. /\ cs' \in ClientStates
      /\ dispatching' = (v = NON_INTERACTIVE)
      /\ cs'.action_list_ptr = c.action_list_ptr + 1
      /\ cs'.out <=> c.out \/ (v # NON_INTERACTIVE /\ c.command # NULL)
      /\ cs'.command = c.command
      /\ cs'.server_state = c.server_state
      /\ cs'.action_list = c.action_list
      /\ cs'.message = c.message
      /\ cs'.path_string = c.path_string
  BY ReturnsTyped
<1>2. /\ cs.action_list = cs.server_state /\ cs.server_state \in ListNames
      /\ conn = "open" /\ cs.message \in Messages
  BY OnItem
<1>3. TypeOK'
  <2>1. TypeOK
    BY DEF IInv
  <2>2. dispatching' \in BOOLEAN
    BY <1>1
  <2> QED
    BY <1>1, <2>1, <2>2
       DEF TypeOK, ClientTypeOK, EngineTypeOK, wires, userVars
<1>4. PointerInList' /\ ListMatchesState' /\ Reading'
  BY <1>1, <1>2 DEF PointerInList, ListMatchesState, Reading, ListNames
<1>5. OutIffCommand'
  BY <1>1 DEF OutIffCommand
<1>6. RowsOnlyWhenConnected'
  BY <1>2 DEF RowsOnlyWhenConnected
<1>7. FetchRowIsShown'
  BY <1>1 DEF FetchRowIsShown
<1> QED
  BY <1>3, <1>4, <1>5, <1>6, <1>7 DEF IInv

(* A client state that the items leave alone but for a few fields. *)
LEMMA UiKept ==
  ASSUME IInv, ui' = ui
  PROVE  ui' \in Widgets /\ OnePagePerFile' /\ HintsAreRows'
  BY DEF IInv, TypeOK, ClientTypeOK, OnePagePerFile, HintsAreRows

(* Where the row to hang children under matters: up to the second item of  *)
(* the list that fetches a property, of which the first touches no row.    *)
LEMMA FetchStarts ==
  ASSUME IInv, dispatching, cs.server_state = "FETCH_PROPERTY",
         cs.action_list_ptr + 1 <= 2
  PROVE  /\ CurrentItem.func = "process_mark_buttons_inactive"
         /\ cs.path_string \in ui.vars.rows
<1>1. cs.action_list_ptr = 1 /\ CurrentItem = fetch_property_action_list[1]
  BY OnItem DEF ActionList
<1>2. cs.path_string \in ui.vars.rows
  BY <1>1 DEF IInv, FetchRowIsShown
<1> QED
  BY <1>1, <1>2 DEF fetch_property_action_list, Item

(* The seven items that issue a command keep the invariant. *)
LEMMA IssuesKeeps ==
  ASSUME IInv, dispatching, CurrentItem.func # "NULL",
         NEW verb, NEW arg, \A t \in Nat : Cmd(verb, t, arg) \in Commands,
         Issues(verb, arg), UNCHANGED <<engine, userVars>>
  PROVE  IInv'
<1> DEFINE c == WithCommand(cs, verb, arg)
<1>1. cs \in ClientStates
  BY OnItem
<1>2. c \in ClientStates
  BY <1>1, WithCommandTyped
<1>3. /\ c.command = Cmd(verb, cs.last_tid + 1, arg)
      /\ c.server_state = cs.server_state
      /\ c.action_list = cs.action_list
      /\ c.action_list_ptr = cs.action_list_ptr
      /\ c.path_string = cs.path_string
      /\ c.out = cs.out
      /\ c.message = cs.message
  BY <1>1, WithCommandFields
<1>4. c.command # NULL
  <2>1. Cmd(verb, cs.last_tid + 1, arg) \in Commands
    BY <1>1, FieldTypes
  <2> QED
    BY <1>3, <2>1, NullAssumption
<1>5. Returns(INTERACTIVE, c) /\ UNCHANGED <<conn, fault, ui, wires>>
  BY DEF Issues
<1>6. c.action_list_ptr + 1 \in DOMAIN ActionList(cs.action_list)
  BY <1>3, OnItem DEF GoodItem
<1>7. INTERACTIVE # NON_INTERACTIVE
  BY DEF INTERACTIVE, NON_INTERACTIVE
<1>8. ui' \in Widgets /\ OnePagePerFile' /\ HintsAreRows'
  BY <1>5, UiKept
<1>9. cs.server_state = "FETCH_PROPERTY" /\ c.action_list_ptr + 1 <= 2
         => c.path_string \in ui'.vars.rows
  BY <1>3, <1>5, FetchStarts
<1> QED
  <2> HIDE DEF c
  <2> QED
    BY <1>2, <1>3, <1>4, <1>5, <1>6, <1>7, <1>8, <1>9, DispatchKeeps

(* An item that leaves the widgets alone and moves the pointer within the  *)
(* list, or not at all.                                                    *)
LEMMA QuietKeeps ==
  ASSUME IInv, dispatching, NEW c \in ClientStates, NEW v, Returns(v, c),
         c.server_state = cs.server_state,
         c.action_list = cs.action_list,
         c.message = cs.message,
         c.path_string = cs.path_string,
         c.command = cs.command,
         c.out = cs.out,
         c.action_list_ptr >= cs.action_list_ptr,
         c.action_list_ptr + 1 \in DOMAIN ActionList(cs.action_list),
         UNCHANGED <<conn, fault, ui, wires, engine, userVars>>
  PROVE  IInv'
<1>1. OutIffCommand
  BY DEF IInv
<1>2. c.out => c.command # NULL
  BY <1>1 DEF OutIffCommand
<1>3. c.command # NULL => c.out \/ v # NON_INTERACTIVE
  BY <1>1 DEF OutIffCommand
<1>4. ui' \in Widgets /\ OnePagePerFile' /\ HintsAreRows'
  BY UiKept
<1>5. cs.server_state = "FETCH_PROPERTY" /\ c.action_list_ptr + 1 <= 2
         => c.path_string \in ui'.vars.rows
  <2> SUFFICES ASSUME cs.server_state = "FETCH_PROPERTY", c.action_list_ptr + 1 <= 2
               PROVE  c.path_string \in ui'.vars.rows
    OBVIOUS
  <2>1. cs.action_list_ptr + 1 <= 2
    BY FieldTypes, OnItem
  <2> QED
    BY <2>1, FetchStarts
<1> QED
  BY <1>2, <1>3, <1>4, <1>5, DispatchKeeps

(* Marking the buttons keeps the invariant. *)
LEMMA MarkKeeps ==
  ASSUME IInv, process_mark_buttons_active \/ process_mark_buttons_inactive,
         UNCHANGED <<engine, userVars>>
  PROVE  IInv'
<1>1. PICK b \in BOOLEAN : /\ Returns(NON_INTERACTIVE, [cs EXCEPT !.buttons_active = b])
                           /\ dispatching /\ CurrentItem.func # "NULL"
                           /\ UNCHANGED <<conn, fault, ui, wires>>
  BY Zenon DEF process_mark_buttons_active, process_mark_buttons_inactive, Runs
<1> DEFINE c == [cs EXCEPT !.buttons_active = b]
<1>2. cs \in ClientStates
  BY <1>1, OnItem
<1>3. c \in ClientStates
  BY <1>2, Zenon DEF ClientStates
<1>4. /\ c.server_state = cs.server_state
      /\ c.action_list = cs.action_list
      /\ c.message = cs.message
      /\ c.path_string = cs.path_string
      /\ c.command = cs.command
      /\ c.out = cs.out
      /\ c.action_list_ptr = cs.action_list_ptr
  BY <1>2 DEF ClientStates
<1>5. c.action_list_ptr + 1 \in DOMAIN ActionList(cs.action_list)
  BY <1>1, <1>4, OnItem DEF GoodItem
<1>6. c.action_list_ptr >= cs.action_list_ptr
  BY <1>2, <1>4, FieldTypes
<1>7. Returns(NON_INTERACTIVE, c)
  BY <1>1
<1> QED
  <2> HIDE DEF c
  <2> QED
    BY <1>1, <1>3, <1>4, <1>5, <1>6, <1>7, QuietKeeps

(* process_jump keeps it: its masked distance stays in the list. *)
LEMMA JumpKeeps ==
  ASSUME IInv, process_jump, UNCHANGED <<engine, userVars>>
  PROVE  IInv'
<1>1. PICK q \in {0, Jump(CurrentItem.param)} :
         Returns(NON_INTERACTIVE, [cs EXCEPT !.action_list_ptr = @ + q])
  BY Zenon DEF process_jump
<1>2. /\ dispatching /\ CurrentItem.func = "process_jump"
      /\ UNCHANGED <<conn, fault, ui, wires>>
  BY DEF process_jump, Runs
<1> DEFINE c == [cs EXCEPT !.action_list_ptr = @ + q]
<1>3. cs \in ClientStates /\ cs.action_list_ptr \in Nat
  BY <1>2, OnItem
<1>4. CurrentItem.param \in Nat
  BY <1>2, OnItem DEF GoodItem
<1>5. q \in Nat
  BY <1>4 DEF Jump
<1>6. cs.action_list_ptr + q \in Nat
  BY <1>3, <1>5
<1>7. c \in ClientStates
  BY <1>3, <1>6, Zenon DEF ClientStates
<1>8. /\ c.server_state = cs.server_state
      /\ c.action_list = cs.action_list
      /\ c.message = cs.message
      /\ c.path_string = cs.path_string
      /\ c.command = cs.command
      /\ c.out = cs.out
      /\ c.action_list_ptr = cs.action_list_ptr + q
  BY <1>3 DEF ClientStates
<1>9. c.action_list_ptr + 1 \in DOMAIN ActionList(cs.action_list)
  BY <1>2, <1>8, OnItem DEF GoodItem
<1>10. c.action_list_ptr >= cs.action_list_ptr
  BY <1>3, <1>5, <1>8
<1>11. Returns(NON_INTERACTIVE, c)
  BY <1>1
<1> QED
  <2> HIDE DEF c
  <2> QED
    BY <1>2, <1>7, <1>8, <1>9, <1>10, <1>11, QuietKeeps

(* Adding a page keeps it: a page is only made for a file that has none. *)
LEMMA AddSourceKeeps ==
  ASSUME IInv, process_add_source_file, UNCHANGED <<engine, userVars>>
  PROVE  IInv'
<1> DEFINE file == cs.last_source_file
           page == [file |-> file, text |-> cs.message.data]
           c    == [cs EXCEPT !.last_source_file = NULL]
<1>1. /\ dispatching /\ CurrentItem.func # "NULL"
      /\ cs.message.kind = "source" /\ file # NULL
      /\ ui' = add_source_file(file, cs.message.data)
      /\ Returns(NON_INTERACTIVE, c)
      /\ UNCHANGED <<conn, fault, wires>>
  BY DEF process_add_source_file, Runs
<1>2. cs \in ClientStates /\ ui \in Widgets /\ cs.message \in Messages
  BY <1>1, OnItem
<1>3. file \in Files /\ cs.message.data \in Files
  BY <1>1, <1>2, FieldTypes, FramesTyped
<1>4. page \in [file : Files, text : Files] /\ ui.tabs \in Seq([file : Files, text : Files])
  BY <1>2, <1>3 DEF Widgets
<1>5. ui' \in Widgets
  <2>1. CASE HasTab(file)
    BY <1>1, <1>2, <2>1 DEF add_source_file
  <2>2. CASE ~ HasTab(file)
    <3>1. ui' = [ui EXCEPT !.tabs = Append(@, page), !.current = file]
      BY <1>1, <2>2 DEF add_source_file
    <3>2. Append(ui.tabs, page) \in Seq([file : Files, text : Files])
      BY <1>4
    <3>3. file \in Files \cup {NULL}
      BY <1>3
    <3> HIDE DEF file, page
    <3> QED
      BY <1>2, <3>1, <3>2, <3>3, Zenon DEF Widgets
  <2> QED
    BY <2>1, <2>2
<1>6. OnePagePerFile'
  <2>1. OnePagePerFile
    BY DEF IInv
  <2>2. CASE HasTab(file)
    BY <1>1, <2>1, <2>2 DEF add_source_file, OnePagePerFile
  <2>3. CASE ~ HasTab(file)
    <3>1. ui'.tabs = Append(ui.tabs, page)
      BY <1>1, <1>2, <2>3 DEF add_source_file, Widgets
    <3>2. ui'.tabs[Len(ui.tabs) + 1] = page /\ page.file = file
      BY <1>4, <3>1
    <3>3. \A i \in DOMAIN ui.tabs : ui'.tabs[i] = ui.tabs[i] /\ ui.tabs[i].file # file
      BY <1>4, <2>3, <3>1 DEF HasTab
    <3>4. DOMAIN ui'.tabs = DOMAIN ui.tabs \cup {Len(ui.tabs) + 1}
      BY <1>4, <3>1
    <3>5. \A i, j \in DOMAIN ui'.tabs : ui'.tabs[i].file = ui'.tabs[j].file => i = j
      <4> HIDE DEF page, file
      <4> QED
        BY <2>1, <3>2, <3>3, <3>4, Zenon DEF OnePagePerFile
    <3> QED
      BY <3>5 DEF OnePagePerFile
  <2> QED
    BY <2>2, <2>3
<1>7. ui'.vars = ui.vars
  BY <1>1, <1>2 DEF add_source_file, Widgets
<1>8. HintsAreRows'
  BY <1>7 DEF IInv, HintsAreRows
<1>9. c \in ClientStates
  <2>1. NULL \in Files \cup {NULL}
    OBVIOUS
  <2> QED
    BY <1>2, <2>1, Zenon DEF ClientStates
<1>10. /\ c.server_state = cs.server_state
       /\ c.action_list = cs.action_list
       /\ c.message = cs.message
       /\ c.path_string = cs.path_string
       /\ c.command = cs.command
       /\ c.out = cs.out
       /\ c.action_list_ptr = cs.action_list_ptr
  BY <1>2 DEF ClientStates
<1>11. c.action_list_ptr + 1 \in DOMAIN ActionList(cs.action_list)
  BY <1>1, <1>10, OnItem DEF GoodItem
<1>12. c.out <=> c.command # NULL
  BY <1>10 DEF IInv, OutIffCommand
<1>13. cs.server_state = "FETCH_PROPERTY" /\ c.action_list_ptr + 1 <= 2
         => c.path_string \in ui'.vars.rows
  BY <1>1, <1>7, <1>10, FetchStarts
<1> QED
  <2> HIDE DEF c, file, page
  <2> QED
    BY <1>1, <1>5, <1>6, <1>8, <1>9, <1>10, <1>11, <1>12, <1>13, DispatchKeeps

(* The children of a property arrive when their row is still remembered:   *)
(* the item that hangs them is the second of its list, and of no other.    *)
LEMMA FetchedPlace ==
  ASSUME NEW name \in ListNames, NEW p \in DOMAIN ActionList(name),
         ActionList(name)[p].func = "process_fetched_property"
  PROVE  name = "FETCH_PROPERTY" /\ p = 2
<1> DEFINE Lacks(list) == \A q \in DOMAIN list : list[q].func # "process_fetched_property"
<1>1. Lacks(initial_action_list)
  BY DEF initial_action_list, Item
<1>2. Lacks(break_action_list)
  BY DEF break_action_list, Item
<1>3. Lacks(stopped_action_list)
  BY DEF stopped_action_list, Item
<1>4. Lacks(select_stack_action_list)
  BY DEF select_stack_action_list, Item
<1>5. \A q \in DOMAIN fetch_property_action_list :
         fetch_property_action_list[q].func = "process_fetched_property" => q = 2
  BY DEF fetch_property_action_list, Item
<1> QED
  BY <1>1, <1>2, <1>3, <1>4, <1>5 DEF ListNames, ActionList

(* So the row of process_fetched_property is still in the view. *)
LEMMA FetchedIsSecond ==
  ASSUME IInv, Runs("process_fetched_property")
  PROVE  /\ cs.action_list_ptr = 2
         /\ cs.server_state = "FETCH_PROPERTY"
         /\ cs.path_string \in ui.vars.rows
<1>1. cs.action_list_ptr = 2 /\ cs.server_state = "FETCH_PROPERTY"
  BY OnItem, FetchedPlace DEF Runs
<1> QED
  BY <1>1 DEF IInv, FetchRowIsShown

(* Hanging children under their row keeps the invariant. *)
LEMMA FetchedKeeps ==
  ASSUME IInv, process_fetched_property, UNCHANGED <<engine, userVars>>
  PROVE  IInv'
<1> DEFINE row  == cs.path_string
           m    == cs.message
           new  == add_fetched(ui.vars, m, row)
           c    == [cs EXCEPT !.path_string = NULL]
<1>1. /\ dispatching /\ CurrentItem.func # "NULL"
      /\ Runs("process_fetched_property")
      /\ ui' = [ui EXCEPT !.vars = new]
      /\ Returns(NON_INTERACTIVE, c)
      /\ UNCHANGED <<conn, fault, wires>>
  BY DEF process_fetched_property, Runs
<1>2. cs \in ClientStates /\ ui \in Widgets /\ m \in Messages
  BY <1>1, OnItem
<1>3. cs.action_list_ptr = 2 /\ row \in ui.vars.rows
  BY <1>1, FetchedIsSecond
<1>4. ui.vars \in VarViews
  BY <1>2 DEF Widgets
<1>5. ui.vars.hints \subseteq ui.vars.rows
  BY DEF IInv, HintsAreRows
<1>6. new \in VarViews /\ new.hints \subseteq new.rows
  <2>1. CASE m.kind = "property"
    <3>1. new = [ui.vars EXCEPT !.kids[row] = m.data]
      BY <2>1 DEF add_fetched
    <3>2. m.data \in VarRows \cup {NULL}
      BY <1>2, <2>1, FramesTyped
    <3>3. [ui.vars.kids EXCEPT ![row] = m.data] \in [VarRows -> VarRows \cup {NULL}]
      BY <1>4, <3>2 DEF VarViews
    <3>4. new \in VarViews
      <4> HIDE DEF new, row, m
      <4> QED
        BY <1>4, <3>1, <3>3, Zenon DEF VarViews
    <3>5. new.hints = ui.vars.hints /\ new.rows = ui.vars.rows
      BY <1>4, <3>1 DEF VarViews
    <3> QED
      BY <1>5, <3>4, <3>5
  <2>2. CASE m.kind = "context"
    <3>1. new = [ui.vars EXCEPT !.hints = @ \cup {row}]
      BY <2>2 DEF add_fetched
    <3>2. ui.vars.hints \cup {row} \in SUBSET VarRows
      BY <1>3, <1>4 DEF VarViews
    <3>3. new \in VarViews
      <4> HIDE DEF new, row
      <4> QED
        BY <1>4, <3>1, <3>2, Zenon DEF VarViews
    <3>4. new.hints = ui.vars.hints \cup {row} /\ new.rows = ui.vars.rows
      BY <1>4, <3>1 DEF VarViews
    <3> QED
      BY <1>3, <1>5, <3>3, <3>4
  <2>3. CASE m.kind \notin {"property", "context"}
    BY <1>4, <1>5, <2>3 DEF add_fetched
  <2> QED
    BY <2>1, <2>2, <2>3
<1>7. ui' \in Widgets /\ ui'.tabs = ui.tabs /\ ui'.vars = new
  <2> HIDE DEF new
  <2>1. ui' \in Widgets
    BY <1>1, <1>2, <1>6, Zenon DEF Widgets
  <2> QED
    BY <1>1, <1>2, <2>1 DEF Widgets
<1>8. OnePagePerFile' /\ HintsAreRows'
  BY <1>6, <1>7 DEF IInv, OnePagePerFile, HintsAreRows
<1>9. c \in ClientStates
  <2>1. NULL \in VarRows \cup {NULL}
    OBVIOUS
  <2> QED
    BY <1>2, <2>1, Zenon DEF ClientStates
<1>10. /\ c.server_state = cs.server_state
       /\ c.action_list = cs.action_list
       /\ c.message = cs.message
       /\ c.command = cs.command
       /\ c.out = cs.out
       /\ c.action_list_ptr = cs.action_list_ptr
  BY <1>2 DEF ClientStates
<1>11. c.action_list_ptr + 1 \in DOMAIN ActionList(cs.action_list)
  BY <1>1, <1>10, OnItem DEF GoodItem
<1>12. c.out <=> c.command # NULL
  BY <1>10 DEF IInv, OutIffCommand
<1>13. ~ (c.action_list_ptr + 1 <= 2)
  BY <1>3, <1>10
<1> QED
  <2> HIDE DEF c, new
  <2> QED
    BY <1>1, <1>7, <1>8, <1>9, <1>10, <1>11, <1>12, <1>13, DispatchKeeps

(* The four selecting items: d is cs but for the place of the arrow.       *)
LEMMA SelectKeeps ==
  ASSUME IInv, dispatching, CurrentItem.func \in Selects,
         NEW d \in ClientStates, NEW frame, NEW check \in BOOLEAN, NEW v,
         d.server_state = cs.server_state,
         d.action_list = cs.action_list,
         d.message = cs.message,
         d.path_string = cs.path_string,
         d.command = cs.command,
         d.out = cs.out,
         d.action_list_ptr = cs.action_list_ptr,
         Returns(v, AfterSelect(d, frame, check)),
         ui' \in Widgets, ui'.tabs = ui.tabs, ui'.vars = ui.vars,
         UNCHANGED <<conn, fault, wires, engine, userVars>>
  PROVE  IInv'
<1> DEFINE c    == AfterSelect(d, frame, check)
           file == Frames(cs.message)[frame]
           p    == cs.action_list_ptr
           skip == Skip(check)
<1>1. /\ p \in Nat /\ CurrentItem.param \in Nat /\ cs.message \in Messages
      /\ p + 1 \in DOMAIN ActionList(cs.action_list)
      /\ p + CurrentItem.param + 1 \in DOMAIN ActionList(cs.action_list)
  BY OnItem DEF GoodItem, Selects
<1>2. skip \in {0, CurrentItem.param}
  BY DEF Skip
<1>3. /\ c \in ClientStates
      /\ c.server_state = cs.server_state
      /\ c.action_list = cs.action_list
      /\ c.message = cs.message
      /\ c.path_string = cs.path_string
      /\ c.command = cs.command
      /\ c.out = cs.out
      /\ c.action_list_ptr \in {p, p + skip}
  <2>1. CASE frame \notin DOMAIN Frames(cs.message)
    BY <2>1 DEF AfterSelect
  <2>2. CASE frame \in DOMAIN Frames(cs.message) /\ Found(file)
    <3>1. c = [d EXCEPT !.action_list_ptr = @ + skip]
      BY <2>2 DEF AfterSelect
    <3>2. d.action_list_ptr + skip \in Nat
      BY <1>1, <1>2
    <3> HIDE DEF c, skip
    <3>3. c \in ClientStates
      BY <3>1, <3>2, Zenon DEF ClientStates
    <3> QED
      BY <3>1, <3>3 DEF ClientStates
  <2>3. CASE frame \in DOMAIN Frames(cs.message) /\ ~ Found(file)
    <3>1. c = [d EXCEPT !.last_source_file = file]
      BY <2>3 DEF AfterSelect
    <3>2. file \in Files \cup {NULL}
      <4>1. Frames(cs.message) \in Seq(Files)
        BY <1>1, FramesTyped
      <4> QED
        BY <2>3, <4>1
    <3> HIDE DEF c, file
    <3>3. c \in ClientStates
      BY <3>1, <3>2, Zenon DEF ClientStates
    <3> QED
      BY <3>1, <3>3 DEF ClientStates
  <2> QED
    BY <2>1, <2>2, <2>3
<1>4. c.action_list_ptr + 1 \in DOMAIN ActionList(cs.action_list)
  BY <1>1, <1>2, <1>3
<1>5. c.action_list_ptr >= p
  BY <1>1, <1>2, <1>3
<1>6. OnePagePerFile' /\ HintsAreRows'
  BY DEF IInv, OnePagePerFile, HintsAreRows
<1>7. c.out <=> c.command # NULL
  BY <1>3 DEF IInv, OutIffCommand
<1>8. cs.server_state = "FETCH_PROPERTY" /\ c.action_list_ptr + 1 <= 2
         => c.path_string \in ui'.vars.rows
  <2> SUFFICES ASSUME cs.server_state = "FETCH_PROPERTY", c.action_list_ptr + 1 <= 2
               PROVE  FALSE
    OBVIOUS
  <2>1. p + 1 <= 2
    BY <1>1, <1>3, <1>5, FieldTypes
  <2> QED
    BY <2>1, FetchStarts DEF Selects
<1>9. Returns(v, c)
  OBVIOUS
<1> QED
  <2> HIDE DEF c
  <2> QED
    BY <1>3, <1>4, <1>6, <1>7, <1>8, <1>9, DispatchKeeps

(* Showing the innermost frame keeps the invariant. *)
LEMMA SelectStack0Keeps ==
  ASSUME IInv, process_select_file_line_for_stack_0, UNCHANGED <<engine, userVars>>
  PROVE  IInv'
<1> DEFINE m     == cs.message
           shown == 1 \in DOMAIN Frames(m) /\ HasTab(Frames(m)[1])
           place == [file |-> Frames(m)[1], stop |-> m.data.stop]
           check == CurrentItem.func = "process_select_file_line_for_stack_0"
           moved == IF shown THEN [cs EXCEPT !.last_iter = place] ELSE cs
<1>1. /\ dispatching /\ CurrentItem.func \in Selects
      /\ UNCHANGED <<conn, fault, wires>>
  BY DEF process_select_file_line_for_stack_0, Runs, Selects
<1>2. PICK v \in FallOff : Returns(v, AfterSelect(moved, 1, check))
  BY DEF process_select_file_line_for_stack_0
<1>3. ui' = IF shown
            THEN [ui EXCEPT !.current = place.file,
                            !.arrows = MovedArrow(@, cs.last_iter, place)]
            ELSE ui
  BY DEF process_select_file_line_for_stack_0
<1>4. cs \in ClientStates /\ ui \in Widgets /\ m \in Messages
  BY <1>1, OnItem
<1>5. shown => place \in Places
  <2> SUFFICES ASSUME shown PROVE place \in Places
    OBVIOUS
  <2>1. /\ Frames(m) \in Seq(Files)
        /\ Frames(m) # << >>
        /\ m.data \in [stop : Nat, frames : Seq(Files)]
    BY <1>4, FramesTyped
  <2>2. Frames(m)[1] \in Files /\ m.data.stop \in Nat
    BY <2>1
  <2> QED
    BY <2>2 DEF Places
<1>6. /\ moved \in ClientStates
      /\ moved.server_state = cs.server_state
      /\ moved.action_list = cs.action_list
      /\ moved.message = cs.message
      /\ moved.path_string = cs.path_string
      /\ moved.command = cs.command
      /\ moved.out = cs.out
      /\ moved.action_list_ptr = cs.action_list_ptr
  <2>1. CASE shown
    <3>1. moved = [cs EXCEPT !.last_iter = place]
      BY <2>1
    <3>2. place \in Places \cup {NULL}
      BY <1>5, <2>1
    <3> HIDE DEF moved, place, m
    <3>3. moved \in ClientStates
      BY <1>4, <3>1, <3>2, Zenon DEF ClientStates
    <3> QED
      BY <1>4, <3>1, <3>3 DEF ClientStates
  <2>2. CASE ~ shown
    BY <1>4, <2>2
  <2> QED
    BY <2>1, <2>2
<1>7. ui' \in Widgets /\ ui'.tabs = ui.tabs /\ ui'.vars = ui.vars
  <2>1. CASE shown
    <3> DEFINE arrows == MovedArrow(ui.arrows, cs.last_iter, place)
    <3>1. ui' = [ui EXCEPT !.current = place.file, !.arrows = arrows]
      BY <1>3, <2>1
    <3>2. arrows \in SUBSET Places
      BY <1>4, <1>5, <2>1 DEF MovedArrow, Widgets
    <3>3. place.file \in Files \cup {NULL}
      BY <1>5, <2>1 DEF Places
    <3> HIDE DEF arrows, place, shown
    <3>4. ui' \in Widgets
      BY <1>4, <3>1, <3>2, <3>3, Zenon DEF Widgets
    <3> QED
      BY <1>4, <3>1, <3>4 DEF Widgets
  <2>2. CASE ~ shown
    BY <1>3, <1>4, <2>2
  <2> QED
    BY <2>1, <2>2
<1>8. check \in BOOLEAN
  OBVIOUS
<1> QED
  <2> HIDE DEF moved, check
  <2> QED
    BY <1>1, <1>2, <1>4, <1>6, <1>7, <1>8, SelectKeeps

(* Showing the selected frame keeps the invariant. *)
LEMMA SelectSelectedKeeps ==
  ASSUME IInv, process_select_file_line_for_selected_stack, UNCHANGED <<engine, userVars>>
  PROVE  IInv'
<1> DEFINE m     == cs.message
           frame == cs.last_selected_stack_frame + 1
           shown == frame \in DOMAIN Frames(m) /\ HasTab(Frames(m)[frame])
           check == CurrentItem.func = "process_select_file_line_for_selected_stack"
<1>1. /\ dispatching /\ CurrentItem.func \in Selects
      /\ UNCHANGED <<conn, fault, wires>>
  BY DEF process_select_file_line_for_selected_stack, Runs, Selects
<1>2. PICK v \in FallOff : Returns(v, AfterSelect(cs, frame, check))
  BY DEF process_select_file_line_for_selected_stack
<1>3. ui' = IF shown THEN [ui EXCEPT !.current = Frames(m)[frame]] ELSE ui
  BY DEF process_select_file_line_for_selected_stack
<1>4. cs \in ClientStates /\ ui \in Widgets /\ m \in Messages
  BY <1>1, OnItem
<1>5. ui' \in Widgets /\ ui'.tabs = ui.tabs /\ ui'.vars = ui.vars
  <2>1. CASE shown
    <3> DEFINE file == Frames(m)[frame]
    <3>1. ui' = [ui EXCEPT !.current = file]
      BY <1>3, <2>1
    <3>2. file \in Files \cup {NULL}
      <4>1. Frames(m) \in Seq(Files)
        BY <1>4, FramesTyped
      <4> QED
        BY <2>1, <4>1
    <3> HIDE DEF file, shown
    <3>3. ui' \in Widgets
      BY <1>4, <3>1, <3>2, Zenon DEF Widgets
    <3> QED
      BY <1>4, <3>1, <3>3 DEF Widgets
  <2>2. CASE ~ shown
    BY <1>3, <1>4, <2>2
  <2> QED
    BY <2>1, <2>2
<1>6. check \in BOOLEAN
  OBVIOUS
<1> QED
  <2> HIDE DEF check, frame
  <2> QED
    BY <1>1, <1>2, <1>4, <1>5, <1>6, SelectKeeps

(* Filling the variable view keeps it: only rows have hints. *)
LEMMA UpdateContextKeeps ==
  ASSUME IInv, process_update_context_vars_for_selected_stack,
         UNCHANGED <<engine, userVars>>
  PROVE  IInv'
<1> DEFINE m == cs.message
           view == VarView(m)
<1>1. /\ dispatching
      /\ CurrentItem.func = "process_update_context_vars_for_selected_stack"
      /\ ui' = [ui EXCEPT !.vars = view]
      /\ Returns(NON_INTERACTIVE, cs)
      /\ UNCHANGED <<conn, fault, wires>>
  BY DEF process_update_context_vars_for_selected_stack, Runs
<1>2. cs \in ClientStates /\ ui \in Widgets /\ m \in Messages
  BY <1>1, OnItem
<1>3. view \in VarViews /\ view.hints \subseteq view.rows
  <2>1. CASE m.kind = "context"
    <3>1. m.data \in [stop : Nat, level : Int]
      BY <1>2, <2>1, FramesTyped
    <3>2. view = [from |-> m.data, rows |-> VarRows, hints |-> VarRows, kids |-> NoKids]
      BY <2>1 DEF VarView
    <3>3. NoKids \in [VarRows -> VarRows \cup {NULL}]
      BY DEF NoKids
    <3> QED
      BY <3>1, <3>2, <3>3 DEF VarViews
  <2>2. CASE m.kind = "property"
    <3>1. m.data \in VarRows
      BY <1>2, <2>2, FramesTyped
    <3>2. view = [EmptyVarView EXCEPT !.rows = {m.data}, !.kids[m.data] = m.data]
      BY <2>2 DEF VarView
    <3>3. view = [from |-> NULL, rows |-> {m.data}, hints |-> {},
                  kids |-> [NoKids EXCEPT ![m.data] = m.data]]
      BY <3>2, Zenon DEF EmptyVarView
    <3>4. [NoKids EXCEPT ![m.data] = m.data] \in [VarRows -> VarRows \cup {NULL}]
      BY <3>1 DEF NoKids
    <3> HIDE DEF view, m
    <3> QED
      BY <3>1, <3>3, <3>4 DEF VarViews
  <2>3. CASE m.kind \notin {"context", "property"}
    <3>1. view = EmptyVarView
      BY <2>3 DEF VarView
    <3> QED
      BY <3>1, EmptyViewsTyped DEF EmptyVarView
  <2> QED
    BY <2>1, <2>2, <2>3
<1>4. ui' \in Widgets /\ ui'.tabs = ui.tabs /\ ui'.vars = view
  <2> HIDE DEF view
  <2>1. ui' \in Widgets
    BY <1>1, <1>2, <1>3, Zenon DEF Widgets
  <2> QED
    BY <1>1, <1>2, <2>1 DEF Widgets
<1>5. OnePagePerFile' /\ HintsAreRows'
  BY <1>3, <1>4 DEF IInv, OnePagePerFile, HintsAreRows
<1>6. cs.out <=> cs.command # NULL
  BY DEF IInv, OutIffCommand
<1>7. cs.action_list_ptr + 1 \in DOMAIN ActionList(cs.action_list)
  BY <1>1, OnItem DEF GoodItem
<1>8. ~ (cs.server_state = "FETCH_PROPERTY" /\ cs.action_list_ptr + 1 <= 2)
  BY <1>1, FetchStarts
<1> QED
  BY <1>1, <1>2, <1>4, <1>5, <1>6, <1>7, <1>8, DispatchKeeps

(* Filling the stack view keeps the invariant. *)
LEMMA UpdateStackKeeps ==
  ASSUME IInv, process_update_stack, UNCHANGED <<engine, userVars>>
  PROVE  IInv'
<1> DEFINE m == cs.message
           frames == Frames(m)
           stack == IF frames = << >> THEN NoStack ELSE m.data
           c == ShowsFrames(cs, frames)
<1>1. /\ dispatching /\ CurrentItem.func = "process_update_stack"
      /\ ui' = [ui EXCEPT !.stack = stack]
      /\ Returns(NON_INTERACTIVE, c)
      /\ UNCHANGED <<conn, fault, wires>>
  BY DEF process_update_stack, Runs
<1>2. cs \in ClientStates /\ ui \in Widgets /\ m \in Messages
  BY <1>1, OnItem
<1>3. frames \in Seq(Files) /\ stack \in [stop : Nat, frames : Seq(Files)]
  BY <1>2, FramesTyped, EmptyViewsTyped
<1>4. ui' \in Widgets /\ ui'.tabs = ui.tabs /\ ui'.vars = ui.vars
  <2> HIDE DEF stack
  <2>1. ui' \in Widgets
    BY <1>1, <1>2, <1>3, Zenon DEF Widgets
  <2> QED
    BY <1>1, <1>2, <2>1 DEF Widgets
<1>5. OnePagePerFile' /\ HintsAreRows'
  BY <1>4 DEF IInv, OnePagePerFile, HintsAreRows
<1>6. /\ c \in ClientStates
      /\ c.server_state = cs.server_state
      /\ c.action_list = cs.action_list
      /\ c.message = cs.message
      /\ c.path_string = cs.path_string
      /\ c.command = cs.command
      /\ c.out = cs.out
      /\ c.action_list_ptr = cs.action_list_ptr
  <2>1. Len(frames) \in Nat /\ 0 \in Int
    BY <1>3
  <2> HIDE DEF frames
  <2>2. c \in ClientStates
    BY <1>2, <2>1, Zenon DEF ClientStates, ShowsFrames
  <2> QED
    BY <1>2, <2>2 DEF ClientStates, ShowsFrames
<1>7. c.out <=> c.command # NULL
  BY <1>6 DEF IInv, OutIffCommand
<1>8. c.action_list_ptr + 1 \in DOMAIN ActionList(cs.action_list)
  BY <1>1, <1>6, OnItem DEF GoodItem
<1>9. ~ (cs.server_state = "FETCH_PROPERTY" /\ c.action_list_ptr + 1 <= 2)
  BY <1>1, <1>6, FetchStarts
<1> QED
  <2> HIDE DEF c
  <2> QED
    BY <1>1, <1>4, <1>5, <1>6, <1>7, <1>8, <1>9, DispatchKeeps

(* The end of a list keeps the invariant: its pointer matters no more. *)
LEMMA EndOfListKeeps ==
  ASSUME IInv, EndOfList, UNCHANGED <<engine, userVars>>
  PROVE  IInv'
<1> DEFINE e == Ends(cs)
           out == cs.out \/ cs.command # NULL
<1>1. /\ dispatching /\ dispatching' = FALSE
      /\ cs' = [e EXCEPT !.out = @ \/ cs.command # NULL]
      /\ UNCHANGED <<conn, fault, ui, wires>>
  BY DEF EndOfList, Runs
<1>2. cs \in ClientStates /\ out \in BOOLEAN
  <2>1. cs \in ClientStates
    BY <1>1, OnItem
  <2> QED
    BY <2>1, Zenon
<1>3. /\ e \in ClientStates
      /\ e.server_state = "INPUT" /\ e.command = cs.command /\ e.out = cs.out
  BY <1>2 DEF Ends, ClientStates
<1>4. cs.out <=> cs.command # NULL
  BY DEF IInv, OutIffCommand
<1>5. cs' = [e EXCEPT !.out = out]
  BY <1>1, <1>3, Zenon
<1> HIDE DEF e, out
<1>6. cs' \in ClientStates
  BY <1>2, <1>3, <1>5, Zenon DEF ClientStates
<1>7. /\ cs'.server_state = "INPUT" /\ cs'.command = cs.command
      /\ cs'.out = out
  BY <1>3, <1>5 DEF ClientStates
<1>8. TypeOK'
  <2>1. TypeOK
    BY DEF IInv
  <2> QED
    BY <1>1, <1>6, <2>1 DEF TypeOK, ClientTypeOK, EngineTypeOK, wires, userVars
<1>9. PointerInList' /\ ListMatchesState' /\ Reading' /\ FetchRowIsShown'
  BY <1>1, <1>7 DEF PointerInList, ListMatchesState, Reading, FetchRowIsShown
<1>10. OutIffCommand'
  BY <1>4, <1>7 DEF OutIffCommand, out
<1>11. RowsOnlyWhenConnected' /\ OnePagePerFile' /\ HintsAreRows'
  BY <1>1 DEF IInv, RowsOnlyWhenConnected, OnePagePerFile, HintsAreRows
<1> QED
  BY <1>8, <1>9, <1>10, <1>11 DEF IInv

(* A process that dies leaves everything else as it was. *)
LEMMA CrashKeeps ==
  ASSUME IInv, NEW how \in {"null_deref", "use_after_free"}, Crash(how),
         UNCHANGED engine, clicks' \in Nat, accepts' \in Nat
  PROVE  IInv'
<1>1. fault' = how /\ UNCHANGED <<conn, dispatching, cs, ui, toEngine, toClient>>
  BY DEF Crash, wires
<1>2. TypeOK'
  BY <1>1 DEF IInv, TypeOK, ClientTypeOK, EngineTypeOK
<1>3. /\ PointerInList' /\ ListMatchesState' /\ Reading' /\ OutIffCommand'
      /\ RowsOnlyWhenConnected' /\ OnePagePerFile' /\ HintsAreRows'
      /\ FetchRowIsShown'
  BY <1>1 DEF IInv, PointerInList, ListMatchesState, Reading, OutIffCommand,
              RowsOnlyWhenConnected, OnePagePerFile, HintsAreRows, FetchRowIsShown
<1> QED
  BY <1>2, <1>3 DEF IInv

(* Hence every item of every list keeps the invariant. *)
LEMMA DispatchesKeep ==
  ASSUME IInv, Dispatches
  PROVE  IInv'
<1>1. DispatchStep /\ UNCHANGED <<engine, userVars>>
  BY DEF Dispatches
<1>2. \A t \in Nat : /\ \A f \in Files \cup {NULL} : Cmd("source", t, f) \in Commands
                     /\ \A i \in Int : Cmd("context_get", t, i) \in Commands
                     /\ \A n \in Nat : Cmd("breakpoint_set", t, n) \in Commands
                     /\ \A n \in Nat : Cmd("feature_set", t, n) \in Commands
                     /\ Cmd("run", t, NULL) \in Commands
                     /\ Cmd("step_into", t, NULL) \in Commands
                     /\ Cmd("stack_get", t, NULL) \in Commands
  BY CommandTyped DEF ButtonVerbs, ContinueVerbs
<1>3. dispatching => /\ cs.last_source_file \in Files \cup {NULL}
                     /\ cs.last_selected_stack_frame \in Int
                     /\ CurrentItem.param \in Nat
  BY OnItem, FieldTypes DEF GoodItem
<1>4. clicks' \in Nat /\ accepts' \in Nat
  BY <1>1 DEF userVars, IInv, TypeOK
<1>5. CASE do_context_get
  BY <1>1, <1>2, <1>3, <1>5, IssuesKeeps DEF do_context_get, Runs
<1>6. CASE do_run
  BY <1>1, <1>2, <1>6, IssuesKeeps DEF do_run, Runs
<1>7. CASE do_set_error_breakpoint
  BY <1>1, <1>2, <1>3, <1>7, IssuesKeeps DEF do_set_error_breakpoint, Runs
<1>8. CASE do_set_feature
  BY <1>1, <1>2, <1>3, <1>8, IssuesKeeps DEF do_set_feature, Runs
<1>9. CASE do_source_get
  BY <1>1, <1>2, <1>3, <1>9, IssuesKeeps DEF do_source_get, Runs, WantedSource
<1>10. CASE do_stack_get
  BY <1>1, <1>2, <1>10, IssuesKeeps DEF do_stack_get, Runs
<1>11. CASE do_step_into
  BY <1>1, <1>2, <1>11, IssuesKeeps DEF do_step_into, Runs
<1>12. CASE process_add_source_file
  BY <1>1, <1>12, AddSourceKeeps
<1>13. CASE process_add_source_file_crash \/ process_fetched_property_crash
  <2>1. Crash("null_deref")
    BY <1>13 DEF process_add_source_file_crash, process_fetched_property_crash
  <2> QED
    BY <1>1, <1>4, <2>1, CrashKeeps
<1>14. CASE process_fetched_property
  BY <1>1, <1>14, FetchedKeeps
<1>15. CASE process_jump
  BY <1>1, <1>15, JumpKeeps
<1>16. CASE process_mark_buttons_active \/ process_mark_buttons_inactive
  BY <1>1, <1>16, MarkKeeps
<1>17. CASE process_select_file_line_for_stack_0
  BY <1>1, <1>17, SelectStack0Keeps
<1>18. CASE process_select_file_line_for_selected_stack
  BY <1>1, <1>18, SelectSelectedKeeps
<1>19. CASE process_update_context_vars_for_selected_stack
  BY <1>1, <1>19, UpdateContextKeeps
<1>20. CASE process_update_stack
  BY <1>1, <1>20, UpdateStackKeeps
<1>21. CASE EndOfList
  BY <1>1, <1>21, EndOfListKeeps
<1> QED
  BY <1>1, <1>5, <1>6, <1>7, <1>8, <1>9, <1>10, <1>11, <1>12, <1>13, <1>14, <1>15,
     <1>16, <1>17, <1>18, <1>19, <1>20, <1>21 DEF DispatchStep
-----------------------------------------------------------------------------
(* The other callbacks.  All of them leave the pages and, but for errors   *)
(* and the hint of a clicked row, the views alone.                         *)

(* What a callback that changes the client's state must leave behind.      *)
LEMMA CallbackKeeps ==
  ASSUME IInv, fault' = fault,
         conn' \in {"none", "open", "freed"},
         dispatching' \in BOOLEAN,
         cs' \in ClientStates,
         ui' \in Widgets, ui'.tabs = ui.tabs,
         engine' = engine \/ EngineTypeOK',
         toEngine' \in Seq(Commands), toClient' \in Seq(Messages),
         clicks' \in Nat, accepts' \in Nat,
         PointerInList', ListMatchesState', Reading', OutIffCommand',
         RowsOnlyWhenConnected', HintsAreRows', FetchRowIsShown'
  PROVE  IInv'
<1>1. EngineTypeOK'
  BY DEF IInv, TypeOK, EngineTypeOK
<1>2. fault' \in {"none", "null_deref", "use_after_free"}
  BY DEF IInv, TypeOK, ClientTypeOK
<1>3. TypeOK'
  BY <1>1, <1>2 DEF TypeOK, ClientTypeOK
<1>4. OnePagePerFile'
  BY DEF IInv, OnePagePerFile
<1> QED
  BY <1>3, <1>4 DEF IInv

(* Choosing a list sets the pointer to its first item. *)
LEMMA WithListFields ==
  ASSUME NEW c \in ClientStates, NEW list \in ListNames
  PROVE  LET d == WithList(c, list)
         IN  /\ d \in ClientStates
             /\ d.server_state = list /\ d.action_list = list
             /\ d.action_list_ptr = 1
             /\ d.command = c.command /\ d.out = c.out
             /\ d.path_string = c.path_string
             /\ d.last_tid = c.last_tid
<1> DEFINE d == WithList(c, list)
<1>1. 1 \in Nat /\ list \in {"INPUT"} \cup ListNames /\ list \in {"none"} \cup ListNames
  OBVIOUS
<1>2. d \in ClientStates
  BY <1>1, Zenon DEF ClientStates, WithList
<1> QED
  BY <1>2 DEF WithList, ClientStates

(* A document is read: a list is chosen, or the running one goes on, or    *)
(* the document is ignored.                                                *)
LEMMA ReadKeeps ==
  ASSUME IInv, NEW c \in ClientStates, Reads(c), UNCHANGED <<engine, userVars>>,
         dispatching' \in BOOLEAN,
         c.command = cs.command, c.out = cs.out,
         c.server_state # "INPUT" =>
            c.action_list_ptr \in DOMAIN ActionList(c.server_state),
         c.server_state # "INPUT" => c.action_list = c.server_state,
         dispatching' => c.server_state # "INPUT",
         c.server_state = "FETCH_PROPERTY" /\ c.action_list_ptr <= 2
            => c.path_string \in ui.vars.rows
  PROVE  IInv'
<1> DEFINE m == Head(toClient)
<1>1. /\ conn = "open" /\ toClient # << >>
      /\ cs' = [c EXCEPT !.message = m]
      /\ toClient' = Tail(toClient)
      /\ UNCHANGED <<conn, fault, ui, toEngine>>
  BY DEF Reads
<1>2. /\ toClient \in Seq(Messages) /\ toEngine \in Seq(Commands)
      /\ ui \in Widgets /\ clicks \in Nat /\ accepts \in Nat
  BY DEF IInv, TypeOK, ClientTypeOK
<1>3. m \in Messages /\ toClient' \in Seq(Messages)
  BY <1>1, <1>2
<1>4. cs' \in ClientStates
  <2>1. m \in Messages \cup {NULL}
    BY <1>3
  <2> HIDE DEF m
  <2> QED
    BY <1>1, <2>1, Zenon DEF ClientStates
<1>5. /\ cs'.server_state = c.server_state /\ cs'.action_list = c.action_list
      /\ cs'.action_list_ptr = c.action_list_ptr
      /\ cs'.command = c.command /\ cs'.out = c.out
      /\ cs'.path_string = c.path_string /\ cs'.message = m
  <2> HIDE DEF m
  <2> QED
    BY <1>1 DEF ClientStates
<1>6. PointerInList' /\ ListMatchesState' /\ FetchRowIsShown'
  BY <1>1, <1>5 DEF PointerInList, ListMatchesState, FetchRowIsShown
<1>7. Reading'
  BY <1>1, <1>3, <1>5 DEF Reading
<1>8. OutIffCommand'
  BY <1>5 DEF IInv, OutIffCommand
<1>9. RowsOnlyWhenConnected' /\ HintsAreRows'
  BY <1>1 DEF IInv, RowsOnlyWhenConnected, HintsAreRows
<1>10. conn' \in {"none", "open", "freed"} /\ clicks' \in Nat /\ accepts' \in Nat
  BY <1>1, <1>2 DEF userVars
<1> QED
  BY <1>1, <1>2, <1>3, <1>4, <1>6, <1>7, <1>8, <1>9, <1>10, CallbackKeeps

(* Reading a document keeps the invariant, whatever the state. *)
LEMMA SocketReadableKeeps ==
  ASSUME IInv, SocketReadable
  PROVE  IInv'
<1>1. ReadStep /\ UNCHANGED <<engine, userVars>>
  BY DEF SocketReadable
<1>2. cs \in ClientStates /\ toClient \in Seq(Messages)
  BY DEF IInv, TypeOK, ClientTypeOK
<1>3. \A c \in ClientStates, list \in ListNames :
         /\ c.command = cs.command /\ c.out = cs.out /\ list # "FETCH_PROPERTY"
         /\ Reads(WithList(c, list)) /\ dispatching' = TRUE
         => IInv'
  <2> SUFFICES ASSUME NEW c \in ClientStates, NEW list \in ListNames,
                      c.command = cs.command, c.out = cs.out,
                      list # "FETCH_PROPERTY",
                      Reads(WithList(c, list)), dispatching' = TRUE
               PROVE  IInv'
    OBVIOUS
  <2> DEFINE d == WithList(c, list)
  <2>1. /\ d \in ClientStates
        /\ d.server_state = list /\ d.action_list = list
        /\ d.action_list_ptr = 1
        /\ d.command = cs.command /\ d.out = cs.out
    BY WithListFields
  <2>2. d.action_list_ptr \in DOMAIN ActionList(d.server_state)
    BY <2>1, ListsStart
  <2>3. list # "INPUT"
    BY DEF ListNames
  <2>4. Reads(d)
    OBVIOUS
  <2> HIDE DEF d
  <2> QED
    BY <1>1, <2>1, <2>2, <2>3, <2>4, ReadKeeps
<1>4. CASE process_state_input_init
  <2> DEFINE file == Head(toClient).data
             c    == [cs EXCEPT !.last_source_file = file]
  <2>1. /\ toClient # << >> /\ Head(toClient).kind = "init"
        /\ Reads(WithList(c, "INITIAL")) /\ dispatching' = TRUE
    BY <1>4 DEF process_state_input_init
  <2>2. file \in Files \cup {NULL}
    <3>1. Head(toClient) \in Messages
      BY <1>2, <2>1
    <3> QED
      BY <2>1, <3>1, FramesTyped
  <2>3. c \in ClientStates /\ c.command = cs.command /\ c.out = cs.out
    <3> HIDE DEF file
    <3>1. c \in ClientStates
      BY <1>2, <2>2, Zenon DEF ClientStates
    <3> QED
      BY <1>2, <3>1 DEF ClientStates
  <2>4. "INITIAL" \in ListNames
    BY DEF ListNames
  <2> HIDE DEF c
  <2> QED
    BY <1>3, <2>1, <2>3, <2>4
<1>5. CASE process_state_input_break
  BY <1>2, <1>3, <1>5 DEF process_state_input_break, ListNames
<1>6. CASE process_state_input_stopped
  BY <1>2, <1>3, <1>6 DEF process_state_input_stopped, ListNames
<1>7. CASE process_state_input_other
  <2>1. /\ cs.server_state = "INPUT" /\ Reads(cs) /\ dispatching' = dispatching
    BY <1>7 DEF process_state_input_other
  <2>2. dispatching = FALSE
    BY <2>1 DEF Reads, IInv, TypeOK, ClientTypeOK
  <2> QED
    BY <1>1, <1>2, <2>1, <2>2, ReadKeeps
<1>8. CASE process_request
  <2>1. cs.server_state # "INPUT" /\ Reads(cs) /\ dispatching' = TRUE
    BY <1>8 DEF process_request
  <2>2. /\ cs.action_list = cs.server_state
        /\ cs.action_list_ptr \in DOMAIN ActionList(cs.server_state)
    BY <2>1 DEF IInv, ListMatchesState, PointerInList
  <2>3. cs.server_state = "FETCH_PROPERTY" /\ cs.action_list_ptr <= 2
           => cs.path_string \in ui.vars.rows
    BY DEF IInv, FetchRowIsShown
  <2> QED
    BY <1>1, <1>2, <2>1, <2>2, <2>3, ReadKeeps
<1> QED
  BY <1>1, <1>4, <1>5, <1>6, <1>7, <1>8 DEF ReadStep

(* Writing the command keeps it: the watch goes with the command. *)
LEMMA SocketWritableKeeps ==
  ASSUME IInv, SocketWritable
  PROVE  IInv'
<1>1. /\ conn = "open" /\ ~ dispatching /\ cs.out
      /\ toEngine' = Append(toEngine, cs.command)
      /\ cs' = [cs EXCEPT !.command = NULL, !.out = FALSE]
      /\ UNCHANGED <<conn, fault, dispatching, ui, toClient, engine, userVars>>
  BY DEF SocketWritable, IoWrite, WritesOut, Written
<1>2. /\ cs \in ClientStates /\ ui \in Widgets
      /\ toEngine \in Seq(Commands) /\ toClient \in Seq(Messages)
      /\ conn \in {"none", "open", "freed"} /\ dispatching \in BOOLEAN
      /\ clicks \in Nat /\ accepts \in Nat
  BY DEF IInv, TypeOK, ClientTypeOK
<1>3. cs.command \in Commands
  BY <1>1, <1>2, FieldTypes DEF IInv, OutIffCommand
<1>4. toEngine' \in Seq(Commands)
  BY <1>1, <1>2, <1>3
<1>5. cs' \in ClientStates
  <2>1. NULL \in Commands \cup {NULL} /\ FALSE \in BOOLEAN
    OBVIOUS
  <2> QED
    BY <1>1, <1>2, <2>1, Zenon DEF ClientStates
<1>6. cs'.command = NULL /\ cs'.out = FALSE
  BY <1>1, <1>2, Zenon DEF ClientStates
<1>7. /\ cs'.server_state = cs.server_state /\ cs'.action_list = cs.action_list
      /\ cs'.action_list_ptr = cs.action_list_ptr
      /\ cs'.path_string = cs.path_string /\ cs'.message = cs.message
  BY <1>1, <1>2, Zenon DEF ClientStates
<1>8. PointerInList' /\ ListMatchesState' /\ Reading' /\ FetchRowIsShown'
  BY <1>1, <1>7 DEF IInv, PointerInList, ListMatchesState, Reading, FetchRowIsShown
<1>9. OutIffCommand'
  BY <1>6 DEF OutIffCommand
<1>10. RowsOnlyWhenConnected' /\ HintsAreRows'
  BY <1>1 DEF IInv, RowsOnlyWhenConnected, HintsAreRows
<1> QED
  BY <1>1, <1>2, <1>4, <1>5, <1>8, <1>9, <1>10, CallbackKeeps DEF userVars

(* A new ClientState runs no list and has no command. *)
LEMMA NewFields ==
  /\ NewClientState \in ClientStates
  /\ NewClientState.server_state = "INPUT"
  /\ NewClientState.command = NULL
  /\ NewClientState.out = FALSE
  BY NewTyped DEF NewClientState

(* A lost connection keeps it: the views are emptied with it. *)
LEMMA SocketErrorKeeps ==
  ASSUME IInv, SocketError
  PROVE  IInv'
<1>1. /\ conn' = "freed" /\ ~ dispatching
      /\ cs' = NewClientState
      /\ ui' = [ui EXCEPT !.stack = NoStack, !.vars = EmptyVarView]
      /\ toEngine' = << >> /\ toClient' = << >>
      /\ UNCHANGED <<fault, dispatching, engine, userVars>>
  BY DEF SocketError, IoError, ViewsEmptied
<1>2. /\ ui \in Widgets /\ dispatching \in BOOLEAN
      /\ clicks \in Nat /\ accepts \in Nat
  BY DEF IInv, TypeOK, ClientTypeOK
<1>3. ui' \in Widgets
  BY <1>1, <1>2, EmptyViewsTyped, Zenon DEF Widgets
<1>4. ui'.tabs = ui.tabs /\ ui'.stack = NoStack /\ ui'.vars = EmptyVarView
  BY <1>1, <1>2, Zenon DEF Widgets
<1>5. PointerInList' /\ ListMatchesState' /\ Reading' /\ FetchRowIsShown'
  BY <1>1, NewFields DEF PointerInList, ListMatchesState, Reading, FetchRowIsShown
<1>6. OutIffCommand'
  BY <1>1, NewFields DEF OutIffCommand
<1>7. RowsOnlyWhenConnected' /\ HintsAreRows'
  BY <1>4 DEF RowsOnlyWhenConnected, HintsAreRows, NoStack, EmptyVarView
<1>8. toEngine' \in Seq(Commands) /\ toClient' \in Seq(Messages)
  BY <1>1
<1> QED
  BY <1>1, <1>2, <1>3, <1>4, <1>5, <1>6, <1>7, <1>8, NewFields, CallbackKeeps DEF userVars

(* A new connection keeps it: nothing of a list is left from the last. *)
LEMMA ConnectKeeps ==
  ASSUME IInv, Connect
  PROVE  IInv'
<1>1. /\ conn # "open" /\ conn' = "open"
      /\ cs' = NewClientState
      /\ accepts' = accepts + 1
      /\ UNCHANGED <<fault, dispatching, ui, clicks>>
  BY DEF Connect, async_accept
<1>2. PICK file \in Files : Connects(file)
  BY DEF Connect
<1>3. /\ ui \in Widgets /\ dispatching \in BOOLEAN
      /\ clicks \in Nat /\ accepts \in Nat
  BY DEF IInv, TypeOK, ClientTypeOK
<1>4. ~ dispatching
  BY <1>1 DEF IInv, Reading
<1>5. EngineTypeOK'
  <2>1. engine' = [engine EXCEPT !.phase = "starting", !.frames = << >>,
                                 !.breakpoints = {}, !.features = {}]
    BY <1>2 DEF Connects
  <2>2. "starting" \in Phases /\ << >> \in Seq(Files) /\ {} \in SUBSET Nat
    BY DEF Phases
  <2> QED
    BY <2>1, <2>2, Zenon DEF IInv, TypeOK, EngineTypeOK
<1>6. toEngine' \in Seq(Commands) /\ toClient' \in Seq(Messages)
  <2>1. Msg("init", 0, file) \in Messages
    BY DEF Msg, Messages
  <2>2. toEngine' = << >> /\ toClient' = << Msg("init", 0, file) >>
    BY <1>2 DEF Connects
  <2> QED
    BY <2>1, <2>2
<1>7. PointerInList' /\ ListMatchesState' /\ Reading' /\ FetchRowIsShown'
  BY <1>1, <1>4, NewFields DEF PointerInList, ListMatchesState, Reading, FetchRowIsShown
<1>8. OutIffCommand'
  BY <1>1, NewFields DEF OutIffCommand
<1>9. RowsOnlyWhenConnected' /\ HintsAreRows'
  BY <1>1 DEF IInv, RowsOnlyWhenConnected, HintsAreRows
<1>10. accepts' \in Nat
  BY <1>1, <1>3
<1> QED
  BY <1>1, <1>3, <1>5, <1>6, <1>7, <1>8, <1>9, <1>10, NewFields, CallbackKeeps
-----------------------------------------------------------------------------
(* The user. *)

(* What a click leaves in the ClientState: a command, and the watch for it. *)
LEMMA RequestsFields ==
  ASSUME NEW c \in ClientStates, NEW verb, NEW arg,
         \A t \in Nat : Cmd(verb, t, arg) \in Commands
  PROVE  LET d == Requests(c, verb, arg)
         IN  /\ d \in ClientStates
             /\ d.command # NULL /\ d.out
             /\ d.server_state = c.server_state
             /\ d.action_list = c.action_list
             /\ d.action_list_ptr = c.action_list_ptr
             /\ d.path_string = c.path_string
             /\ d.message = c.message
<1> DEFINE e == WithCommand(c, verb, arg)
           d == Requests(c, verb, arg)
<1>1. e \in ClientStates
  BY WithCommandTyped
<1>2. /\ e.command = Cmd(verb, c.last_tid + 1, arg)
      /\ e.server_state = c.server_state
      /\ e.action_list = c.action_list
      /\ e.action_list_ptr = c.action_list_ptr
      /\ e.path_string = c.path_string
      /\ e.message = c.message
  BY WithCommandFields
<1>3. e.command # NULL
  <2>1. c.last_tid + 1 \in Nat
    BY FieldTypes
  <2> QED
    BY <1>2, <2>1, NullAssumption
<1>4. d = [e EXCEPT !.out = TRUE]
  BY DEF Requests
<1> HIDE DEF d, e
<1>5. d \in ClientStates
  BY <1>1, <1>4, Zenon DEF ClientStates
<1>6. d.out = TRUE
  BY <1>1, <1>4, Zenon DEF ClientStates
<1>7. /\ d.command = e.command /\ d.server_state = e.server_state
      /\ d.action_list = e.action_list /\ d.action_list_ptr = e.action_list_ptr
      /\ d.path_string = e.path_string /\ d.message = e.message
  BY <1>1, <1>4, Zenon DEF ClientStates
<1> QED
  BY <1>2, <1>3, <1>5, <1>6, <1>7 DEF d

(* A click replaces the command and possibly the list; nothing is read.    *)
LEMMA ClickKeeps ==
  ASSUME IInv, Clicks, ~ dispatching,
         UNCHANGED <<conn, fault, dispatching, wires>>,
         cs' \in ClientStates, ui' \in Widgets,
         ui'.tabs = ui.tabs, ui'.stack = ui.stack, ui'.vars.rows = ui.vars.rows,
         HintsAreRows', PointerInList', ListMatchesState', OutIffCommand',
         FetchRowIsShown'
  PROVE  IInv'
<1>1. /\ conn \in {"none", "open", "freed"} /\ dispatching \in BOOLEAN
      /\ toEngine \in Seq(Commands) /\ toClient \in Seq(Messages)
      /\ clicks \in Nat /\ accepts \in Nat
  BY DEF IInv, TypeOK, ClientTypeOK
<1>2. clicks' \in Nat /\ accepts' \in Nat /\ engine' = engine
  BY <1>1 DEF Clicks
<1>3. Reading'
  BY DEF Reading
<1>4. RowsOnlyWhenConnected'
  BY DEF IInv, RowsOnlyWhenConnected
<1> QED
  BY <1>1, <1>2, <1>3, <1>4, CallbackKeeps DEF wires

(* A button keeps the invariant, whatever list is running. *)
LEMMA UserPressesKeeps ==
  ASSUME IInv, UserPresses
  PROVE  IInv'
<1>1. PICK verb \in ButtonVerbs : process_a_button(verb)
  BY DEF UserPresses
<1> DEFINE c == SavedPaths(cs)
           d == Requests(c, verb, NULL)
<1>2. /\ ~ dispatching /\ cs' = IF cs.buttons_active THEN d ELSE c
      /\ UNCHANGED <<conn, fault, dispatching, ui, wires>>
  BY <1>1 DEF process_a_button
<1>3. cs \in ClientStates /\ ui \in Widgets
  BY DEF IInv, TypeOK, ClientTypeOK
<1>4. /\ c \in ClientStates
      /\ c.command = cs.command /\ c.out = cs.out
      /\ c.server_state = cs.server_state
      /\ c.action_list = cs.action_list
      /\ c.action_list_ptr = cs.action_list_ptr
      /\ c.path_string = cs.path_string
  <2>1. cs.nr_of_stack_frames + 4 \in Nat
    BY <1>3, FieldTypes
  <2>2. CASE cs.nr_of_stack_frames > cs.stack_info_size
    <3> DEFINE size == cs.nr_of_stack_frames + 4
    <3>1. c = [cs EXCEPT !.stack_info_size = size]
      BY <2>2 DEF SavedPaths
    <3> HIDE DEF size, c
    <3>2. c \in ClientStates
      BY <1>3, <2>1, <3>1, Zenon DEF ClientStates, size
    <3> QED
      BY <1>3, <3>1, <3>2 DEF ClientStates
  <2>3. CASE ~ (cs.nr_of_stack_frames > cs.stack_info_size)
    BY <1>3, <2>3 DEF SavedPaths
  <2> QED
    BY <2>2, <2>3
<1>5. /\ d \in ClientStates
      /\ d.command # NULL /\ d.out
      /\ d.server_state = cs.server_state
      /\ d.action_list = cs.action_list
      /\ d.action_list_ptr = cs.action_list_ptr
      /\ d.path_string = cs.path_string
  <2>1. \A t \in Nat : Cmd(verb, t, NULL) \in Commands
    BY CommandTyped
  <2> HIDE DEF c
  <2> QED
    BY <1>4, <2>1, RequestsFields
<1>6. /\ cs' \in ClientStates
      /\ cs'.server_state = cs.server_state
      /\ cs'.action_list = cs.action_list
      /\ cs'.action_list_ptr = cs.action_list_ptr
      /\ cs'.path_string = cs.path_string
      /\ cs'.out <=> cs'.command # NULL
  <2> HIDE DEF c, d
  <2> QED
    BY <1>2, <1>4, <1>5 DEF IInv, OutIffCommand
<1>7. PointerInList' /\ ListMatchesState' /\ FetchRowIsShown' /\ HintsAreRows'
  BY <1>2, <1>6 DEF IInv, PointerInList, ListMatchesState, FetchRowIsShown, HintsAreRows
<1>8. OutIffCommand'
  BY <1>6 DEF OutIffCommand
<1> HIDE DEF c, d
<1> QED
  BY <1>2, <1>3, <1>6, <1>7, <1>8, ClickKeeps DEF UserPresses

(* Selecting a frame keeps it: the running list is replaced as a whole. *)
LEMMA UserSelectsFrameKeeps ==
  ASSUME IInv, UserSelectsFrame
  PROVE  IInv'
<1>1. PICK row \in DOMAIN ui.stack.frames : stack_selection_function(row)
  BY DEF UserSelectsFrame
<1>2. cs \in ClientStates /\ ui \in Widgets
  BY DEF IInv, TypeOK, ClientTypeOK
<1> DEFINE level == AsChar(row - 1)
           c == [cs EXCEPT !.last_selected_stack_frame = level]
           d == WithList(c, "SELECT_STACK")
           e == Requests(d, "stack_get", NULL)
<1>3. /\ ~ dispatching /\ cs' = e
      /\ UNCHANGED <<conn, fault, dispatching, ui, wires>>
  BY <1>1 DEF stack_selection_function
<1>4. level \in Int
  <2>1. row \in Int
    BY <1>2 DEF Widgets
  <2> QED
    BY <2>1 DEF AsChar
<1>5. c \in ClientStates
  <2> HIDE DEF level
  <2> QED
    BY <1>2, <1>4, Zenon DEF ClientStates
<1>6. "SELECT_STACK" \in ListNames
  BY DEF ListNames
<1>7. /\ d \in ClientStates /\ d.server_state = "SELECT_STACK"
      /\ d.action_list = "SELECT_STACK" /\ d.action_list_ptr = 1
  BY <1>5, <1>6, WithListFields
<1>8. \A t \in Nat : Cmd("stack_get", t, NULL) \in Commands
  BY CommandTyped
<1>9. /\ cs' \in ClientStates
      /\ cs'.command # NULL /\ cs'.out
      /\ cs'.server_state = "SELECT_STACK"
      /\ cs'.action_list = "SELECT_STACK" /\ cs'.action_list_ptr = 1
  <2> HIDE DEF d
  <2>1. /\ e \in ClientStates
        /\ e.command # NULL /\ e.out
        /\ e.server_state = d.server_state
        /\ e.action_list = d.action_list
        /\ e.action_list_ptr = d.action_list_ptr
    BY <1>7, <1>8, RequestsFields
  <2> HIDE DEF e
  <2> QED
    BY <1>3, <1>7, <2>1
<1>10. /\ PointerInList' /\ ListMatchesState' /\ OutIffCommand'
       /\ FetchRowIsShown' /\ HintsAreRows'
  BY <1>3, <1>6, <1>9, ListsStart
     DEF IInv, PointerInList, ListMatchesState, OutIffCommand, FetchRowIsShown, HintsAreRows
<1> QED
  BY <1>2, <1>3, <1>9, <1>10, ClickKeeps DEF UserSelectsFrame

(* Selecting a variable keeps it: a row with a hint is a row of the view. *)
LEMMA UserSelectsVariableKeeps ==
  ASSUME IInv, UserSelectsVariable
  PROVE  IInv'
<1>1. PICK row \in VarRows : varview_selection_function(row)
  BY DEF UserSelectsVariable
<1>2. cs \in ClientStates /\ ui \in Widgets
  BY DEF IInv, TypeOK, ClientTypeOK
<1> DEFINE hints == ui.vars.hints \ {row}
           view == [ui.vars EXCEPT !.hints = hints]
           c == RowRemembered(cs, row)
           d == WithList(c, "FETCH_PROPERTY")
           e == Requests(d, "property_get", row)
<1>3. /\ ~ dispatching /\ row \in ui.vars.hints
      /\ ui' = [ui EXCEPT !.vars = view]
      /\ cs' = e
      /\ UNCHANGED <<conn, fault, dispatching, wires>>
  BY <1>1 DEF varview_selection_function
<1>4. ui.vars \in VarViews /\ hints \in SUBSET VarRows
  BY <1>2 DEF Widgets, VarViews
<1>5. view \in VarViews /\ view.rows = ui.vars.rows /\ view.hints = hints
  <2> HIDE DEF hints
  <2>1. view \in VarViews
    BY <1>4, Zenon DEF VarViews
  <2> QED
    BY <1>4, <2>1 DEF VarViews
<1>6. /\ ui' \in Widgets /\ ui'.vars = view
      /\ ui'.tabs = ui.tabs /\ ui'.stack = ui.stack
  <2> HIDE DEF view
  <2>1. ui' \in Widgets
    BY <1>2, <1>3, <1>5, Zenon DEF Widgets
  <2> QED
    BY <1>2, <1>3, <2>1 DEF Widgets
<1>7. c \in ClientStates /\ c.path_string = row
  <2>1. row \in VarRows \cup {NULL}
    OBVIOUS
  <2>2. c \in ClientStates
    BY <1>2, <2>1, Zenon DEF ClientStates, RowRemembered
  <2> QED
    BY <1>2, <2>2 DEF ClientStates, RowRemembered
<1>8. "FETCH_PROPERTY" \in ListNames
  BY DEF ListNames
<1>9. /\ d \in ClientStates /\ d.server_state = "FETCH_PROPERTY"
      /\ d.action_list = "FETCH_PROPERTY" /\ d.action_list_ptr = 1
      /\ d.path_string = row
  BY <1>7, <1>8, WithListFields
<1>10. \A t \in Nat : Cmd("property_get", t, row) \in Commands
  BY CommandTyped
<1>11. /\ cs' \in ClientStates
       /\ cs'.command # NULL /\ cs'.out
       /\ cs'.server_state = "FETCH_PROPERTY"
       /\ cs'.action_list = "FETCH_PROPERTY" /\ cs'.action_list_ptr = 1
       /\ cs'.path_string = row
  <2> HIDE DEF d
  <2>1. /\ e \in ClientStates
        /\ e.command # NULL /\ e.out
        /\ e.server_state = d.server_state
        /\ e.action_list = d.action_list
        /\ e.action_list_ptr = d.action_list_ptr
        /\ e.path_string = d.path_string
    BY <1>9, <1>10, RequestsFields
  <2> HIDE DEF e
  <2> QED
    BY <1>3, <1>9, <2>1
<1>12. PointerInList' /\ ListMatchesState' /\ OutIffCommand'
  BY <1>8, <1>11, ListsStart DEF PointerInList, ListMatchesState, OutIffCommand
<1>13. ui.vars.hints \subseteq ui.vars.rows
  BY DEF IInv, HintsAreRows
<1>14. HintsAreRows'
  BY <1>5, <1>6, <1>13 DEF HintsAreRows
<1>15. FetchRowIsShown'
  BY <1>3, <1>5, <1>6, <1>11, <1>13 DEF FetchRowIsShown
<1>16. ui'.vars.rows = ui.vars.rows
  BY <1>5, <1>6
<1> QED
  BY <1>3, <1>6, <1>11, <1>12, <1>14, <1>15, <1>16, ClickKeeps DEF UserSelectsVariable
-----------------------------------------------------------------------------
(* The engine. *)

EnginesTyped == /\ EngineTypeOK
                /\ toEngine \in Seq(Commands) /\ toClient \in Seq(Messages)

(* A document sent leaves the stream well typed. *)
LEMMA SendsTyped ==
  ASSUME EnginesTyped, NEW kind, NEW tid, NEW data,
         Msg(kind, tid, data) \in Messages, Sends(kind, tid, data)
  PROVE  toClient' \in Seq(Messages)
  BY DEF EnginesTyped, Sends

(* The command the engine takes is one. *)
LEMMA TakesTyped ==
  ASSUME EnginesTyped, NEW verbs, Takes(verbs)
  PROVE  /\ Head(toEngine) \in Commands /\ Head(toEngine).verb \in verbs
         /\ Head(toEngine).tid \in Nat
         /\ toEngine' \in Seq(Commands)
         /\ engine.phase \in {"starting", "break", "stopping"}
<1>1. Head(toEngine) \in Commands /\ toEngine' \in Seq(Commands)
  BY DEF EnginesTyped, Takes
<1>2. Head(toEngine).tid \in Nat
  BY <1>1 DEF Commands
<1> QED
  BY <1>1, <1>2 DEF Takes

(* The documents the engine sends are documents. *)
LEMMA MessagesTyped ==
  ASSUME NEW t \in Nat
  PROVE  /\ \A kind \in {"break", "stopped", "ok", "error"} : Msg(kind, t, NULL) \in Messages
         /\ \A f \in Files : Msg("source", t, f) \in Messages
         /\ \A n \in Nat, fs \in Seq(Files) :
               Msg("stack", t, [stop |-> n, frames |-> fs]) \in Messages
         /\ \A n \in Nat, i \in Int :
               Msg("context", t, [stop |-> n, level |-> i]) \in Messages
         /\ \A r \in VarRows : Msg("property", t, r) \in Messages
  BY DEF Msg, Messages

(* What the fields of the engine hold. *)
LEMMA EngineFields ==
  ASSUME EngineTypeOK
  PROVE  /\ engine.phase \in Phases /\ engine.frames \in Seq(Files)
         /\ engine.stop \in Nat /\ engine.run_tid \in Nat
         /\ engine.breakpoints \in SUBSET Nat /\ engine.features \in SUBSET Nat
  BY DEF EngineTypeOK

(* Whatever the engine answers, it and the streams keep their types, *)
LEMMA AnswersTyped ==
  ASSUME EnginesTyped, EngineAnswers
  PROVE  EnginesTyped'
<1> DEFINE c == Head(toEngine)
<1>1. EngineTypeOK /\ toClient \in Seq(Messages)
  BY DEF EnginesTyped
<1>2. CASE EngineContinues
  <2>1. /\ c.tid \in Nat /\ toEngine' \in Seq(Commands)
        /\ toClient' \in Seq(Messages)
    BY <1>1, <1>2, TakesTyped DEF EngineContinues
  <2>2. CASE engine.phase = "stopping"
    <3>1. "gone" \in Phases /\ engine' = [engine EXCEPT !.phase = "gone"]
      BY <1>2, <2>2 DEF EngineContinues, Phases
    <3>2. EngineTypeOK'
      BY <1>1, <3>1, Zenon DEF EngineTypeOK
    <3> QED
      BY <2>1, <3>2 DEF EnginesTyped
  <2>3. CASE engine.phase # "stopping"
    <3>1. engine' = [engine EXCEPT !.phase = "running", !.run_tid = c.tid]
      BY <1>2, <2>3 DEF EngineContinues
    <3>2. "running" \in Phases
      BY DEF Phases
    <3> HIDE DEF c
    <3>3. EngineTypeOK'
      BY <1>1, <2>1, <3>1, <3>2, Zenon DEF EngineTypeOK
    <3> QED
      BY <2>1, <3>3 DEF EnginesTyped
  <2> QED
    BY <2>2, <2>3
<1>3. CASE EngineLeaves
  <2>1. c.tid \in Nat /\ toEngine' \in Seq(Commands)
    BY <1>3, TakesTyped DEF EngineLeaves
  <2>2. "gone" \in Phases /\ engine' = [engine EXCEPT !.phase = "gone"]
    BY <1>3 DEF EngineLeaves, Phases
  <2>3. EngineTypeOK'
    BY <1>1, <2>2, Zenon DEF EngineTypeOK
  <2>4. toClient' \in Seq(Messages)
    <3>1. Sends("stopped", c.tid, NULL) \/ UNCHANGED toClient
      BY <1>3 DEF EngineLeaves
    <3>2. Msg("stopped", c.tid, NULL) \in Messages
      BY <2>1, MessagesTyped
    <3> QED
      BY <1>1, <3>1, <3>2, SendsTyped
  <2> QED
    BY <2>1, <2>3, <2>4 DEF EnginesTyped
<1>4. CASE EngineRefuses
  <2>1. /\ c.tid \in Nat /\ toEngine' \in Seq(Commands)
        /\ Sends("error", c.tid, NULL) /\ engine' = engine
    BY <1>4, TakesTyped DEF EngineRefuses
  <2>2. toClient' \in Seq(Messages)
    BY <2>1, MessagesTyped, SendsTyped
  <2> QED
    BY <1>1, <2>1, <2>2 DEF EnginesTyped, EngineTypeOK
<1>5. CASE EngineSendsSource
  <2>1. /\ c.tid \in Nat /\ toEngine' \in Seq(Commands) /\ engine' = engine
        /\ \/ c.arg \in Files /\ Sends("source", c.tid, c.arg)
           \/ Sends("error", c.tid, NULL)
    BY <1>5, TakesTyped DEF EngineSendsSource
  <2>2. toClient' \in Seq(Messages)
    BY <2>1, MessagesTyped, SendsTyped
  <2> QED
    BY <1>1, <2>1, <2>2 DEF EnginesTyped, EngineTypeOK
<1>6. CASE EngineSendsStack
  <2> DEFINE frames == IF engine.phase = "break" THEN engine.frames ELSE << >>
             data   == [stop |-> engine.stop, frames |-> frames]
  <2>1. /\ c.tid \in Nat /\ toEngine' \in Seq(Commands) /\ engine' = engine
        /\ Sends("stack", c.tid, data)
    BY <1>6, TakesTyped DEF EngineSendsStack
  <2>2. Msg("stack", c.tid, data) \in Messages
    <3>1. frames \in Seq(Files) /\ engine.stop \in Nat
      BY <1>1, EngineFields
    <3> HIDE DEF frames
    <3> QED
      BY <2>1, <3>1, MessagesTyped
  <2>3. toClient' \in Seq(Messages)
    BY <2>1, <2>2, SendsTyped
  <2> QED
    BY <1>1, <2>1, <2>3 DEF EnginesTyped, EngineTypeOK
<1>7. CASE EngineSendsContext
  <2> DEFINE data == [stop |-> engine.stop, level |-> c.arg]
  <2>1. /\ c.tid \in Nat /\ toEngine' \in Seq(Commands) /\ engine' = engine
        /\ c \in Commands /\ c.verb = "context_get"
    BY <1>7, TakesTyped DEF EngineSendsContext
  <2>2. Sends("context", c.tid, data) \/ Sends("error", c.tid, NULL)
    BY <1>7 DEF EngineSendsContext
  <2>3. c.arg \in Int
    BY <2>1 DEF Commands, ButtonVerbs, ContinueVerbs, EndVerbs
  <2>4. Msg("context", c.tid, data) \in Messages
    BY <1>1, <2>1, <2>3, MessagesTyped, EngineFields
  <2>5. Msg("error", c.tid, NULL) \in Messages
    BY <2>1, MessagesTyped
  <2>6. toClient' \in Seq(Messages)
    BY <2>2, <2>4, <2>5, SendsTyped
  <2> QED
    BY <1>1, <2>1, <2>6 DEF EnginesTyped, EngineTypeOK
<1>8. CASE EngineSendsProperty
  <2>1. /\ c.tid \in Nat /\ toEngine' \in Seq(Commands) /\ engine' = engine
        /\ c \in Commands /\ c.verb = "property_get"
    BY <1>8, TakesTyped DEF EngineSendsProperty
  <2>2. Sends("property", c.tid, c.arg) \/ Sends("error", c.tid, NULL)
    BY <1>8 DEF EngineSendsProperty
  <2>3. c.arg \in VarRows
    BY <2>1 DEF Commands, ButtonVerbs, ContinueVerbs, EndVerbs
  <2>4. Msg("property", c.tid, c.arg) \in Messages /\ Msg("error", c.tid, NULL) \in Messages
    BY <2>1, <2>3, MessagesTyped
  <2>5. toClient' \in Seq(Messages)
    BY <2>2, <2>4, SendsTyped
  <2> QED
    BY <1>1, <2>1, <2>5 DEF EnginesTyped, EngineTypeOK
<1>9. CASE EngineAccepts
  <2>1. /\ c.tid \in Nat /\ toEngine' \in Seq(Commands)
        /\ c \in Commands /\ c.verb \in {"breakpoint_set", "feature_set"}
        /\ Sends("ok", c.tid, NULL)
    BY <1>9, TakesTyped DEF EngineAccepts
  <2>2. toClient' \in Seq(Messages)
    BY <2>1, MessagesTyped, SendsTyped
  <2>3. c.arg \in Nat
    BY <2>1 DEF Commands, ButtonVerbs, ContinueVerbs, EndVerbs
  <2> DEFINE points   == engine.breakpoints \cup {c.arg}
             features == engine.features \cup {c.arg}
  <2>4. \/ engine' = [engine EXCEPT !.breakpoints = points]
        \/ engine' = [engine EXCEPT !.features = features]
    BY <1>9 DEF EngineAccepts
  <2>5. points \in SUBSET Nat /\ features \in SUBSET Nat
    BY <1>1, <2>3, EngineFields
  <2> HIDE DEF points, features
  <2>6. EngineTypeOK'
    BY <1>1, <2>4, <2>5, Zenon DEF EngineTypeOK
  <2> QED
    BY <2>1, <2>2, <2>6 DEF EnginesTyped
<1> QED
  BY <1>2, <1>3, <1>4, <1>5, <1>6, <1>7, <1>8, <1>9 DEF EngineAnswers

(* and so they do when the script stops, ends or dies. *)
LEMMA ScriptTyped ==
  ASSUME EnginesTyped, ScriptStops \/ ScriptEnds \/ EngineDies
  PROVE  EnginesTyped'
<1>1. EngineTypeOK /\ engine.run_tid \in Nat /\ engine.stop + 1 \in Nat
  BY EngineFields DEF EnginesTyped
<1>2. /\ "break" \in Phases /\ "stopping" \in Phases /\ "gone" \in Phases
  BY DEF Phases
<1>3. toEngine' \in Seq(Commands)
  BY DEF EnginesTyped, ScriptStops, ScriptEnds, EngineDies, wires
<1>4. toClient' \in Seq(Messages)
  <2>1. /\ Msg("break", engine.run_tid, NULL) \in Messages
        /\ Msg("stopped", engine.run_tid, NULL) \in Messages
    BY <1>1, MessagesTyped
  <2>2. \/ Sends("break", engine.run_tid, NULL)
        \/ Sends("stopped", engine.run_tid, NULL)
        \/ toClient' = toClient
    BY DEF ScriptStops, ScriptEnds, EngineDies, wires
  <2> QED
    BY <2>1, <2>2, SendsTyped DEF EnginesTyped
<1>5. EngineTypeOK'
  <2>1. CASE ScriptStops
    <3>1. PICK frames \in Stacks :
             engine' = [engine EXCEPT !.phase = "break", !.frames = frames, !.stop = @ + 1]
      BY <2>1 DEF ScriptStops
    <3>2. frames \in Seq(Files)
      BY EngineAssumption
    <3> QED
      BY <1>1, <1>2, <3>1, <3>2, Zenon DEF EngineTypeOK
  <2>2. CASE ScriptEnds \/ EngineDies
    <3>1. \/ engine' = [engine EXCEPT !.phase = "stopping"]
          \/ engine' = [engine EXCEPT !.phase = "gone"]
      BY <2>2 DEF ScriptEnds, EngineDies
    <3> QED
      BY <1>1, <1>2, <3>1, Zenon DEF EngineTypeOK
  <2> QED
    BY <2>1, <2>2
<1> QED
  BY <1>3, <1>4, <1>5 DEF EnginesTyped

(* Nothing the engine does disturbs the client. *)
LEMMA EngineKeeps ==
  ASSUME IInv, EnginesTyped', UNCHANGED <<clientVars, userVars>>
  PROVE  IInv'
<1>1. UNCHANGED <<conn, fault, dispatching, cs, ui, clicks, accepts>>
  BY DEF clientVars, userVars
<1>2. TypeOK'
  BY <1>1 DEF IInv, TypeOK, ClientTypeOK, EnginesTyped
<1>3. /\ PointerInList' /\ ListMatchesState' /\ Reading' /\ OutIffCommand'
      /\ RowsOnlyWhenConnected' /\ OnePagePerFile' /\ HintsAreRows'
      /\ FetchRowIsShown'
  BY <1>1 DEF IInv, PointerInList, ListMatchesState, Reading, OutIffCommand,
              RowsOnlyWhenConnected, OnePagePerFile, HintsAreRows, FetchRowIsShown
<1> QED
  BY <1>2, <1>3 DEF IInv
-----------------------------------------------------------------------------
(* The theorems. *)

(* The invariant is inductive: no step of the client, the engine or the    *)
(* user leads out of it.                                                   *)
THEOREM Inductive == IInv /\ [Next]_vars => IInv'
<1> SUFFICES ASSUME IInv, [Next]_vars PROVE IInv'
  OBVIOUS
<1>1. EnginesTyped /\ clicks \in Nat /\ accepts \in Nat
  BY DEF IInv, TypeOK, EnginesTyped
<1>2. CASE Connect
  BY <1>2, ConnectKeeps
<1>3. CASE UserPresses
  BY <1>3, UserPressesKeeps
<1>4. CASE UserPressesTooEarly \/ UserPressesUnconnected
  <2>1. \E how \in {"null_deref", "use_after_free"} : Crash(how)
    BY <1>4 DEF UserPressesTooEarly, UserPressesUnconnected,
                process_a_button_no_frames, process_a_button_no_connection
  <2>2. clicks' \in Nat /\ accepts' \in Nat /\ engine' = engine
    BY <1>1, <1>4 DEF UserPressesTooEarly, UserPressesUnconnected, Clicks
  <2> QED
    BY <2>1, <2>2, CrashKeeps
<1>5. CASE UserSelectsFrame
  BY <1>5, UserSelectsFrameKeeps
<1>6. CASE UserSelectsVariable
  BY <1>6, UserSelectsVariableKeeps
<1>7. CASE SocketReadable
  BY <1>7, SocketReadableKeeps
<1>8. CASE SocketWritable
  BY <1>8, SocketWritableKeeps
<1>9. CASE SocketError
  BY <1>9, SocketErrorKeeps
<1>10. CASE Dispatches
  BY <1>10, DispatchesKeep
<1>11. CASE EngineStep
  BY <1>1, <1>11, AnswersTyped, ScriptTyped, EngineKeeps DEF EngineStep
<1>12. CASE EngineFails
  BY <1>1, <1>12, ScriptTyped, EngineKeeps DEF EngineFails
<1>13. CASE UNCHANGED vars
  <2>1. UNCHANGED <<clientVars, userVars>> /\ UNCHANGED <<engine, toEngine, toClient>>
    BY <1>13 DEF vars, wires
  <2>2. EnginesTyped'
    BY <1>1, <2>1 DEF EnginesTyped, EngineTypeOK
  <2> QED
    BY <2>1, <2>2, EngineKeeps
<1> QED
  BY <1>2, <1>3, <1>4, <1>5, <1>6, <1>7, <1>8, <1>9, <1>10, <1>11, <1>12, <1>13 DEF Next

(* In every behaviour, with any user and any engine, IInv always holds.    *)
THEOREM Invariance == Spec => []IInv
  BY InitIInv, Inductive, PTL DEF Spec

(* Every variable keeps its type.                                          *)
THEOREM Typing == Spec => []TypeOK
<1>1. IInv => TypeOK
  BY DEF IInv
<1> QED
  BY Invariance, <1>1, PTL

(* The action list pointer never leaves the list being run, so the loop of *)
(* process_state_init never runs past a NULL item.                         *)
THEOREM PointerStaysInList == Spec => []PointerInList
<1>1. IInv => PointerInList
  BY DEF IInv
<1> QED
  BY Invariance, <1>1, PTL

(* Whatever is clicked while a command is unwritten, the writer is called  *)
(* exactly when there is a command to write.                               *)
THEOREM WatchMatchesCommand == Spec => []OutIffCommand
<1>1. IInv => OutIffCommand
  BY DEF IInv
<1> QED
  BY Invariance, <1>1, PTL

(* The selection callbacks are never called without a connection.          *)
THEOREM SelectionsAreConnected == Spec => []RowsOnlyWhenConnected
<1>1. IInv => RowsOnlyWhenConnected
  BY DEF IInv
<1> QED
  BY Invariance, <1>1, PTL

(* No file ever has two pages in the notebook, across sessions too.        *)
THEOREM PagesAreUnique == Spec => []OnePagePerFile
<1>1. IInv => OnePagePerFile
  BY DEF IInv
<1> QED
  BY Invariance, <1>1, PTL

(* A fetched property always finds the row that asked for it.              *)
THEOREM FetchesFindTheirRow == Spec => []FetchRowIsShown
<1>1. IInv => FetchRowIsShown
  BY DEF IInv
<1> QED
  BY Invariance, <1>1, PTL
-----------------------------------------------------------------------------
(***************************************************************************)
(* The order of things.  What follows traces commands and answers along the *)
(* way: from the command not yet written over the two streams and the      *)
(* engine to the document being processed.                                 *)
(*                                                                         *)
(* Dozens of actions move a command or a document, but in few ways.  The   *)
(* first part reduces every step of the session to one of ten kinds; the   *)
(* theorems then look at the kinds only.                                   *)
(***************************************************************************)

(* The client keeps its command, its document and its counter. *)
Still ==
    /\ UNCHANGED <<conn, toEngine, toClient, engine>>
    /\ cs'.command = cs.command
    /\ cs'.last_tid = cs.last_tid
    /\ cs'.message = cs.message

SamePlace ==
    /\ dispatching' = dispatching
    /\ cs'.server_state = cs.server_state
    /\ cs'.action_list = cs.action_list
    /\ cs'.action_list_ptr = cs.action_list_ptr

(* An item that issues no command: the loop goes on, the list is over, or  *)
(* a wrapper was taken for an item that issued one.                        *)
Goes ==
    /\ Still /\ dispatching
    /\ dispatching' \/ FellOff' \/ cs'.server_state = "INPUT"

Rests == Still /\ SamePlace

(* A command with the next id, from an item or from a click. *)
Asks ==
    /\ UNCHANGED <<toEngine, toClient, engine>>
    /\ conn = "open" /\ conn' = "open" /\ ~ dispatching'
    /\ cs'.last_tid = cs.last_tid + 1
    /\ cs'.command \in Commands /\ cs'.command.tid = cs'.last_tid
    /\ cs'.message = cs.message
    /\ dispatching \/ (~ dispatching /\ (Patient => Settled))

Receives ==
    /\ UNCHANGED <<conn, toEngine, engine>>
    /\ conn = "open" /\ ~ dispatching /\ toClient # << >>
    /\ toClient' = Tail(toClient)
    /\ cs'.message = Head(toClient)
    /\ cs'.command = cs.command
    /\ cs'.last_tid = cs.last_tid
    /\ dispatching' \/ (~ dispatching' /\ cs'.server_state = "INPUT")

Writes ==
    /\ UNCHANGED <<conn, toClient, engine>>
    /\ conn = "open" /\ ~ dispatching /\ SamePlace
    /\ cs.command # NULL /\ cs'.command = NULL
    /\ toEngine' = Append(toEngine, cs.command)
    /\ cs'.last_tid = cs.last_tid
    /\ cs'.message = cs.message

Loses ==
    /\ UNCHANGED engine
    /\ engine.phase = "gone"
    /\ conn = "open" /\ conn' = "freed"
    /\ ~ dispatching' /\ cs' = NewClientState
    /\ toEngine' = << >> /\ toClient' = << >>

Opens ==
    /\ engine'.phase = "starting"
    /\ conn # "open" /\ conn' = "open"
    /\ ~ dispatching' /\ cs' = NewClientState
    /\ toEngine' = << >>
    /\ \E file \in Files : toClient' = << Msg("init", 0, file) >>

Says(tid) ==
    \E m \in Messages : /\ m.tid = tid /\ m.kind # "init"
                        /\ toClient' = Append(toClient, m)

(* The engine answers a command at once, later, or not at all. *)
Handles ==
    /\ UNCHANGED clientVars
    /\ toEngine # << >> /\ toEngine' = Tail(toEngine)
    /\ engine.phase \in {"starting", "break", "stopping"}
    /\ \/ Says(Head(toEngine).tid) /\ engine'.phase # "running"
       \/ /\ UNCHANGED toClient
          /\ engine'.phase = "running" /\ engine'.run_tid = Head(toEngine).tid
       \/ UNCHANGED toClient /\ engine'.phase = "gone"

Halts ==
    /\ UNCHANGED <<clientVars, toEngine>>
    /\ engine.phase = "running" /\ engine'.phase \in {"break", "stopping"}
    /\ Says(engine.run_tid)

Vanishes ==
    /\ UNCHANGED <<clientVars, toEngine, toClient>>
    /\ engine.phase # "gone" /\ engine'.phase = "gone"
-----------------------------------------------------------------------------
(* The items of the lists. *)

(* The selecting items skip to a selecting item, or nowhere: in the list   *)
(* that opens a session,                                                   *)
LEMMA InitialSkips ==
  \A p \in DOMAIN initial_action_list :
     initial_action_list[p].func \in Wrappers =>
        initial_action_list[p + initial_action_list[p].param].func \in Wrappers
  BY DEF Wrappers, initial_action_list, Item

(* in the list run at a stop, *)
LEMMA BreakSkips ==
  \A p \in DOMAIN break_action_list :
     break_action_list[p].func \in Wrappers =>
        break_action_list[p + break_action_list[p].param].func \in Wrappers
  BY DEF Wrappers, break_action_list, Item

(* and in the list run when a frame is selected. *)
LEMMA SelectSkips ==
  \A p \in DOMAIN select_stack_action_list :
     select_stack_action_list[p].func \in Wrappers =>
        select_stack_action_list[p + select_stack_action_list[p].param].func \in Wrappers
  BY DEF Wrappers, select_stack_action_list, Item

(* The other two lists select nothing. *)
LEMMA OthersSkip ==
  /\ \A p \in DOMAIN stopped_action_list : stopped_action_list[p].func \notin Wrappers
  /\ \A p \in DOMAIN fetch_property_action_list :
        fetch_property_action_list[p].func \notin Wrappers
  BY DEF Wrappers, stopped_action_list, fetch_property_action_list, Item

(* Hence the item before the pointer is a wrapper after a wrapper's skip.  *)
LEMMA SkipsToWrapper ==
  ASSUME NEW list \in ListNames, NEW p \in DOMAIN ActionList(list),
         ActionList(list)[p].func \in Wrappers
  PROVE  ActionList(list)[p + ActionList(list)[p].param].func \in Wrappers
  BY InitialSkips, BreakSkips, SelectSkips, OthersSkip DEF ListNames, ActionList

(* The counter is not touched by the loop itself. *)
LEMMA ReturnsTid ==
  ASSUME NEW c \in ClientStates, NEW v, Returns(v, c)
  PROVE  cs'.last_tid = c.last_tid
<1> DEFINE out == c.out \/ (v # NON_INTERACTIVE /\ c.command # NULL)
<1>1. cs' = [c EXCEPT !.action_list_ptr = @ + 1, !.out = out]
  BY Zenon DEF Returns
<1> HIDE DEF out
<1> QED
  BY <1>1 DEF ClientStates

(* An item that leaves the command, the document and the counter goes on,  *)
(* but for the selecting ones when their value is the wrong one.           *)
LEMMA ItemGoes ==
  ASSUME IInv, dispatching,
         NEW c \in ClientStates, NEW v, Returns(v, c),
         c.command = cs.command, c.last_tid = cs.last_tid, c.message = cs.message,
         UNCHANGED <<conn, wires, engine>>,
         \/ v = NON_INTERACTIVE
         \/ /\ c.server_state = cs.server_state /\ c.action_list = cs.action_list
            /\ c.action_list_ptr >= 1
            /\ ActionList(cs.action_list)[c.action_list_ptr].func \in Wrappers
  PROVE  Goes
<1>1. /\ dispatching' = (v = NON_INTERACTIVE)
      /\ cs'.action_list_ptr = c.action_list_ptr + 1
      /\ cs'.command = c.command
      /\ cs'.server_state = c.server_state
      /\ cs'.action_list = c.action_list
      /\ cs'.message = c.message
      /\ cs'.last_tid = c.last_tid
      /\ c.action_list_ptr \in Nat
  BY ReturnsTyped, ReturnsTid, FieldTypes
<1>2. Still
  BY <1>1 DEF Still, wires
<1>3. CASE v = NON_INTERACTIVE
  BY <1>1, <1>2, <1>3 DEF Goes
<1>4. CASE v # NON_INTERACTIVE
  <2>1. /\ ActionList(cs'.action_list)[cs'.action_list_ptr - 1].func \in Wrappers
        /\ cs'.action_list_ptr > 1
    BY <1>1, <1>4
  <2>2. ~ dispatching'
    BY <1>1, <1>4
  <2>3. FellOff' \/ cs'.server_state = "INPUT"
    BY <2>1, <2>2 DEF FellOff
  <2> QED
    BY <1>2, <2>3 DEF Goes
<1> QED
  BY <1>3, <1>4

(* What WithCommand does to the counter. *)
LEMMA WithCommandTid ==
  ASSUME NEW c \in ClientStates, NEW verb, NEW arg,
         \A t \in Nat : Cmd(verb, t, arg) \in Commands
  PROVE  LET d == WithCommand(c, verb, arg)
         IN  /\ d \in ClientStates
             /\ d.last_tid = c.last_tid + 1
             /\ d.message = c.message
             /\ d.command \in Commands
             /\ d.command.tid = c.last_tid + 1
<1>1. c.last_tid + 1 \in Nat
  BY FieldTypes
<1>2. Cmd(verb, c.last_tid + 1, arg) \in Commands
  BY <1>1
<1>3. Cmd(verb, c.last_tid + 1, arg).tid = c.last_tid + 1
  BY DEF Cmd
<1> QED
  BY <1>2, <1>3, WithCommandTyped, WithCommandFields DEF WithCommand, ClientStates

(* The seven items that issue a command ask. *)
LEMMA IssuesAsk ==
  ASSUME IInv, dispatching,
         NEW verb, NEW arg, \A t \in Nat : Cmd(verb, t, arg) \in Commands,
         Issues(verb, arg), UNCHANGED engine
  PROVE  Asks
<1> DEFINE c == WithCommand(cs, verb, arg)
<1>1. cs \in ClientStates /\ conn = "open"
  BY OnItem
<1>2. /\ c \in ClientStates /\ c.last_tid = cs.last_tid + 1
      /\ c.message = cs.message
      /\ c.command \in Commands /\ c.command.tid = cs.last_tid + 1
  BY <1>1, WithCommandTid
<1>3. Returns(INTERACTIVE, c) /\ UNCHANGED <<conn, fault, ui, wires>>
  BY DEF Issues
<1> HIDE DEF c
<1>4. /\ cs'.command = c.command /\ cs'.message = c.message
      /\ cs'.last_tid = c.last_tid
      /\ ~ dispatching'
  <2>1. INTERACTIVE # NON_INTERACTIVE
    BY DEF INTERACTIVE, NON_INTERACTIVE
  <2> QED
    BY <1>2, <1>3, <2>1, ReturnsTyped, ReturnsTid
<1> QED
  BY <1>1, <1>2, <1>3, <1>4 DEF Asks, wires

(* A selecting item changes the place of the arrow, the file to fetch and  *)
(* the pointer, and so goes on or falls off.                               *)
LEMMA SelectGoes ==
  ASSUME IInv, dispatching, CurrentItem.func \in Wrappers,
         NEW d \in ClientStates, NEW frame, NEW check \in BOOLEAN, NEW v,
         d.server_state = cs.server_state,
         d.action_list = cs.action_list,
         d.message = cs.message,
         d.command = cs.command,
         d.last_tid = cs.last_tid,
         d.action_list_ptr = cs.action_list_ptr,
         Returns(v, AfterSelect(d, frame, check)),
         UNCHANGED <<conn, wires, engine>>
  PROVE  Goes
<1> DEFINE c    == AfterSelect(d, frame, check)
           file == Frames(cs.message)[frame]
           p    == cs.action_list_ptr
           skip == Skip(check)
<1>1. /\ p \in Nat /\ p >= 1 /\ CurrentItem.param \in Nat /\ cs.message \in Messages
      /\ cs.action_list \in ListNames
      /\ p \in DOMAIN ActionList(cs.action_list)
      /\ CurrentItem = ActionList(cs.action_list)[p]
  BY OnItem DEF GoodItem
<1>2. skip \in {0, CurrentItem.param}
  BY DEF Skip
<1>3. /\ c \in ClientStates
      /\ c.server_state = cs.server_state
      /\ c.action_list = cs.action_list
      /\ c.message = cs.message
      /\ c.command = cs.command
      /\ c.last_tid = cs.last_tid
      /\ c.action_list_ptr \in {p, p + skip}
  <2>1. CASE frame \notin DOMAIN Frames(cs.message)
    BY <2>1 DEF AfterSelect
  <2>2. CASE frame \in DOMAIN Frames(cs.message) /\ Found(file)
    <3>1. c = [d EXCEPT !.action_list_ptr = @ + skip]
      BY <2>2 DEF AfterSelect
    <3>2. d.action_list_ptr + skip \in Nat
      BY <1>1, <1>2
    <3> HIDE DEF c, skip
    <3>3. c \in ClientStates
      BY <3>1, <3>2, Zenon DEF ClientStates
    <3> QED
      BY <3>1, <3>3 DEF ClientStates
  <2>3. CASE frame \in DOMAIN Frames(cs.message) /\ ~ Found(file)
    <3>1. c = [d EXCEPT !.last_source_file = file]
      BY <2>3 DEF AfterSelect
    <3>2. file \in Files \cup {NULL}
      <4>1. Frames(cs.message) \in Seq(Files)
        BY <1>1, FramesTyped
      <4> QED
        BY <2>3, <4>1
    <3> HIDE DEF c, file
    <3>3. c \in ClientStates
      BY <3>1, <3>2, Zenon DEF ClientStates
    <3> QED
      BY <3>1, <3>3 DEF ClientStates
  <2> QED
    BY <2>1, <2>2, <2>3
<1>4. ActionList(cs.action_list)[p + CurrentItem.param].func \in Wrappers
  BY <1>1, SkipsToWrapper
<1>5. ActionList(cs.action_list)[c.action_list_ptr].func \in Wrappers
  <2>1. c.action_list_ptr \in {p, p + CurrentItem.param}
    BY <1>1, <1>2, <1>3
  <2> QED
    BY <1>1, <1>4, <2>1
<1>6. c.action_list_ptr >= 1
  BY <1>1, <1>2, <1>3
<1>7. Returns(v, c)
  OBVIOUS
<1> QED
  <2> HIDE DEF c
  <2> QED
    BY <1>3, <1>5, <1>6, <1>7, ItemGoes

(* Setting fields other than these keeps a ClientState what it was.        *)
SameNumbers(c) ==
    /\ c \in ClientStates
    /\ c.command = cs.command /\ c.last_tid = cs.last_tid /\ c.message = cs.message

(* Every item of every list asks, goes on, falls off or crashes.           *)
LEMMA DispatchKinds ==
  ASSUME IInv, Dispatches
  PROVE  Goes \/ Asks \/ Rests
<1>1. DispatchStep /\ UNCHANGED engine
  BY DEF Dispatches
<1>2. \A t \in Nat : /\ \A f \in Files \cup {NULL} : Cmd("source", t, f) \in Commands
                     /\ \A i \in Int : Cmd("context_get", t, i) \in Commands
                     /\ \A n \in Nat : Cmd("breakpoint_set", t, n) \in Commands
                     /\ \A n \in Nat : Cmd("feature_set", t, n) \in Commands
                     /\ Cmd("run", t, NULL) \in Commands
                     /\ Cmd("step_into", t, NULL) \in Commands
                     /\ Cmd("stack_get", t, NULL) \in Commands
  BY CommandTyped DEF ButtonVerbs, ContinueVerbs
<1>3. dispatching => /\ cs.last_source_file \in Files \cup {NULL}
                     /\ cs.last_selected_stack_frame \in Int
                     /\ CurrentItem.param \in Nat
                     /\ cs \in ClientStates /\ cs.message \in Messages
                     /\ cs.action_list_ptr \in Nat
                     /\ CurrentItem = ActionList(cs.action_list)[cs.action_list_ptr]
  BY OnItem, FieldTypes DEF GoodItem
<1>4. ASSUME NEW c, SameNumbers(c), dispatching, Returns(NON_INTERACTIVE, c),
             UNCHANGED <<conn, wires>>
      PROVE  Goes
  BY <1>1, <1>4, ItemGoes DEF SameNumbers
<1>5. CASE do_context_get
  BY <1>1, <1>2, <1>3, <1>5, IssuesAsk DEF do_context_get, Runs
<1>6. CASE do_run
  BY <1>1, <1>2, <1>6, IssuesAsk DEF do_run, Runs
<1>7. CASE do_set_error_breakpoint
  BY <1>1, <1>2, <1>3, <1>7, IssuesAsk DEF do_set_error_breakpoint, Runs
<1>8. CASE do_set_feature
  BY <1>1, <1>2, <1>3, <1>8, IssuesAsk DEF do_set_feature, Runs
<1>9. CASE do_source_get
  BY <1>1, <1>2, <1>3, <1>9, IssuesAsk DEF do_source_get, Runs, WantedSource
<1>10. CASE do_stack_get
  BY <1>1, <1>2, <1>10, IssuesAsk DEF do_stack_get, Runs
<1>11. CASE do_step_into
  BY <1>1, <1>2, <1>11, IssuesAsk DEF do_step_into, Runs
<1>12. CASE process_add_source_file
  <2> DEFINE c == [cs EXCEPT !.last_source_file = NULL]
  <2>1. /\ dispatching /\ Returns(NON_INTERACTIVE, c)
        /\ UNCHANGED <<conn, wires>>
    BY <1>12 DEF process_add_source_file, Runs
  <2>2. SameNumbers(c)
    BY <1>3, <2>1 DEF SameNumbers, ClientStates
  <2> QED
    BY <1>4, <2>1, <2>2
<1>13. CASE process_add_source_file_crash \/ process_fetched_property_crash
  BY <1>1, <1>13 DEF process_add_source_file_crash, process_fetched_property_crash,
                     Crash, Rests, Still, SamePlace, wires
<1>14. CASE process_fetched_property
  <2> DEFINE c == [cs EXCEPT !.path_string = NULL]
  <2>1. /\ dispatching /\ Returns(NON_INTERACTIVE, c)
        /\ UNCHANGED <<conn, wires>>
    BY <1>14 DEF process_fetched_property, Runs
  <2>2. SameNumbers(c)
    BY <1>3, <2>1 DEF SameNumbers, ClientStates
  <2> QED
    BY <1>4, <2>1, <2>2
<1>15. CASE process_jump
  <2>1. PICK warned \in BOOLEAN :
           Returns(NON_INTERACTIVE,
                   [cs EXCEPT !.action_list_ptr =
                         @ + IF warned THEN 0 ELSE Jump(CurrentItem.param)])
    BY <1>15 DEF process_jump
  <2> DEFINE far == IF warned THEN 0 ELSE Jump(CurrentItem.param)
             c   == [cs EXCEPT !.action_list_ptr = @ + far]
  <2>2. dispatching /\ UNCHANGED <<conn, wires>>
    BY <1>15 DEF process_jump, Runs
  <2>3. cs.action_list_ptr + far \in Nat
    BY <1>3, <2>2 DEF Jump
  <2>4. Returns(NON_INTERACTIVE, c)
    BY <2>1
  <2> HIDE DEF far
  <2>5. c \in ClientStates
    BY <1>3, <2>2, <2>3, Zenon DEF ClientStates
  <2>6. SameNumbers(c)
    BY <1>3, <2>2, <2>5 DEF SameNumbers, ClientStates
  <2> QED
    BY <1>4, <2>2, <2>4, <2>6
<1>16. CASE process_mark_buttons_active \/ process_mark_buttons_inactive
  <2>1. PICK active \in BOOLEAN :
           Returns(NON_INTERACTIVE, [cs EXCEPT !.buttons_active = active])
    BY <1>16 DEF process_mark_buttons_active, process_mark_buttons_inactive
  <2> DEFINE c == [cs EXCEPT !.buttons_active = active]
  <2>2. dispatching /\ UNCHANGED <<conn, wires>>
    BY <1>16 DEF process_mark_buttons_active, process_mark_buttons_inactive, Runs
  <2>3. SameNumbers(c)
    BY <1>3, <2>2 DEF SameNumbers, ClientStates
  <2> QED
    BY <1>4, <2>1, <2>2, <2>3
<1>17. CASE process_select_file_line_for_stack_0
  <2> DEFINE m     == cs.message
             shown == 1 \in DOMAIN Frames(m) /\ HasTab(Frames(m)[1])
             place == [file |-> Frames(m)[1], stop |-> m.data.stop]
             check == CurrentItem.func = "process_select_file_line_for_stack_0"
             moved == IF shown THEN [cs EXCEPT !.last_iter = place] ELSE cs
  <2>1. /\ dispatching /\ CurrentItem.func \in Wrappers
        /\ UNCHANGED <<conn, wires>>
    BY <1>17 DEF process_select_file_line_for_stack_0, Runs, Wrappers
  <2>2. PICK v \in FallOff : Returns(v, AfterSelect(moved, 1, check))
    BY <1>17 DEF process_select_file_line_for_stack_0
  <2>3. shown => place \in Places
    <3> SUFFICES ASSUME shown PROVE place \in Places
      OBVIOUS
    <3>1. /\ Frames(m) \in Seq(Files)
          /\ m.data \in [stop : Nat, frames : Seq(Files)]
      BY <1>3, <2>1, FramesTyped
    <3>2. Frames(m)[1] \in Files /\ m.data.stop \in Nat
      BY <3>1
    <3> QED
      BY <3>2 DEF Places
  <2>4. /\ moved \in ClientStates
        /\ moved.server_state = cs.server_state
        /\ moved.action_list = cs.action_list
        /\ moved.message = cs.message
        /\ moved.command = cs.command
        /\ moved.last_tid = cs.last_tid
        /\ moved.action_list_ptr = cs.action_list_ptr
    <3>1. CASE shown
      <4>1. moved = [cs EXCEPT !.last_iter = place] /\ cs \in ClientStates
        BY <1>3, <2>1, <3>1
      <4>2. place \in Places \cup {NULL}
        BY <2>3, <3>1
      <4> HIDE DEF moved, place, m
      <4>3. moved \in ClientStates
        BY <4>1, <4>2, Zenon DEF ClientStates
      <4> QED
        BY <4>1, <4>3 DEF ClientStates
    <3>2. CASE ~ shown
      BY <1>3, <2>1, <3>2
    <3> QED
      BY <3>1, <3>2
  <2>5. check \in BOOLEAN
    OBVIOUS
  <2> HIDE DEF moved, check
  <2> QED
    BY <1>1, <2>1, <2>2, <2>4, <2>5, SelectGoes
<1>18. CASE process_select_file_line_for_selected_stack
  <2> DEFINE frame == cs.last_selected_stack_frame + 1
             check == CurrentItem.func = "process_select_file_line_for_selected_stack"
  <2>1. /\ dispatching /\ CurrentItem.func \in Wrappers
        /\ UNCHANGED <<conn, wires>>
    BY <1>18 DEF process_select_file_line_for_selected_stack, Runs, Wrappers
  <2>2. PICK v \in FallOff : Returns(v, AfterSelect(cs, frame, check))
    BY <1>18 DEF process_select_file_line_for_selected_stack
  <2>3. check \in BOOLEAN /\ cs \in ClientStates
    BY <1>3, <2>1
  <2> HIDE DEF check, frame
  <2> QED
    BY <1>1, <2>1, <2>2, <2>3, SelectGoes
<1>19. CASE process_update_context_vars_for_selected_stack
  <2>1. /\ dispatching /\ Returns(NON_INTERACTIVE, cs)
        /\ UNCHANGED <<conn, wires>>
    BY <1>19 DEF process_update_context_vars_for_selected_stack, Runs
  <2> QED
    BY <1>3, <1>4, <2>1 DEF SameNumbers
<1>20. CASE process_update_stack
  <2> DEFINE frames == Frames(cs.message)
             len    == Len(frames)
             c      == [cs EXCEPT !.nr_of_stack_frames = len,
                                  !.last_selected_stack_frame = 0]
  <2>1. /\ dispatching /\ Returns(NON_INTERACTIVE, c)
        /\ UNCHANGED <<conn, wires>>
    BY <1>20 DEF process_update_stack, ShowsFrames, Runs
  <2>2. len \in Nat /\ 0 \in Int /\ cs \in ClientStates
    <3>1. frames \in Seq(Files)
      BY <1>3, <2>1, FramesTyped
    <3> QED
      BY <1>3, <2>1, <3>1
  <2> HIDE DEF len
  <2>3. c \in ClientStates
    BY <2>2, Zenon DEF ClientStates
  <2>4. SameNumbers(c)
    BY <2>2, <2>3 DEF SameNumbers, ClientStates
  <2> QED
    BY <1>4, <2>1, <2>4
<1>21. CASE EndOfList
  <2> DEFINE out == Ends(cs).out \/ cs.command # NULL
  <2>1. /\ dispatching /\ dispatching' = FALSE
        /\ cs' = [Ends(cs) EXCEPT !.out = out]
        /\ UNCHANGED <<conn, wires>>
    BY <1>21, Zenon DEF EndOfList, Runs
  <2> HIDE DEF out
  <2>2. /\ cs'.server_state = "INPUT" /\ cs'.command = cs.command
        /\ cs'.last_tid = cs.last_tid /\ cs'.message = cs.message
    BY <1>3, <2>1 DEF Ends, ClientStates
  <2> QED
    BY <1>1, <2>1, <2>2 DEF Goes, Still, wires
<1> QED
  BY <1>1, <1>5, <1>6, <1>7, <1>8, <1>9, <1>10, <1>11, <1>12, <1>13, <1>14, <1>15,
     <1>16, <1>17, <1>18, <1>19, <1>20, <1>21 DEF DispatchStep
-----------------------------------------------------------------------------
(* The other steps. *)

(* What a click leaves in the counter, the command and the document. *)
LEMMA RequestsTid ==
  ASSUME NEW c \in ClientStates, NEW verb, NEW arg,
         \A t \in Nat : Cmd(verb, t, arg) \in Commands
  PROVE  LET d == Requests(c, verb, arg)
         IN  /\ d.last_tid = c.last_tid + 1
             /\ d.message = c.message
             /\ d.command \in Commands
             /\ d.command.tid = c.last_tid + 1
<1> DEFINE e == WithCommand(c, verb, arg)
<1>1. /\ e \in ClientStates /\ e.last_tid = c.last_tid + 1
      /\ e.message = c.message
      /\ e.command \in Commands /\ e.command.tid = c.last_tid + 1
  BY WithCommandTid
<1>2. Requests(c, verb, arg) = [e EXCEPT !.out = TRUE]
  BY DEF Requests
<1> HIDE DEF e
<1> QED
  BY <1>1, <1>2 DEF ClientStates

(* A click on a connection, whatever the list it starts from, asks. *)
LEMMA ClickAsks ==
  ASSUME Clicks, conn = "open", ~ dispatching,
         UNCHANGED <<conn, dispatching, wires>>,
         NEW c \in ClientStates, NEW verb, NEW arg,
         \A t \in Nat : Cmd(verb, t, arg) \in Commands,
         c.last_tid = cs.last_tid, c.message = cs.message,
         cs' = Requests(c, verb, arg)
  PROVE  Asks
<1>1. /\ cs'.last_tid = cs.last_tid + 1 /\ cs'.message = cs.message
      /\ cs'.command \in Commands /\ cs'.command.tid = cs'.last_tid
  BY RequestsTid
<1>2. UNCHANGED engine /\ (Patient => Settled)
  BY DEF Clicks
<1> QED
  BY <1>1, <1>2 DEF Asks, wires

(* A button asks, or does nothing while the buttons are inactive. *)
LEMMA UserPressesKinds ==
  ASSUME IInv, UserPresses
  PROVE  Asks \/ Rests
<1>1. PICK verb \in ButtonVerbs : process_a_button(verb)
  BY DEF UserPresses
<1> DEFINE c == SavedPaths(cs)
<1>2. /\ conn = "open" /\ ~ dispatching
      /\ cs' = IF cs.buttons_active THEN Requests(c, verb, NULL) ELSE c
      /\ UNCHANGED <<conn, dispatching, wires>>
      /\ Clicks /\ UNCHANGED engine
  BY <1>1 DEF process_a_button, UserPresses, Clicks
<1>3. cs \in ClientStates
  BY DEF IInv, TypeOK, ClientTypeOK
<1>4. /\ c \in ClientStates
      /\ c.command = cs.command /\ c.last_tid = cs.last_tid
      /\ c.message = cs.message /\ c.server_state = cs.server_state
      /\ c.action_list = cs.action_list
      /\ c.action_list_ptr = cs.action_list_ptr
  <2>1. CASE cs.nr_of_stack_frames > cs.stack_info_size
    <3> DEFINE size == cs.nr_of_stack_frames + 4
    <3>1. c = [cs EXCEPT !.stack_info_size = size]
      BY <2>1 DEF SavedPaths
    <3>2. size \in Nat
      BY <1>3, FieldTypes
    <3> HIDE DEF size, c
    <3>3. c \in ClientStates
      BY <1>3, <3>1, <3>2, Zenon DEF ClientStates
    <3> QED
      BY <1>3, <3>1, <3>3 DEF ClientStates
  <2>2. CASE ~ (cs.nr_of_stack_frames > cs.stack_info_size)
    BY <1>3, <2>2 DEF SavedPaths
  <2> QED
    BY <2>1, <2>2
<1>5. \A t \in Nat : Cmd(verb, t, NULL) \in Commands
  BY CommandTyped
<1> HIDE DEF c
<1>6. CASE cs.buttons_active
  BY <1>2, <1>4, <1>5, <1>6, ClickAsks
<1>7. CASE ~ cs.buttons_active
  BY <1>2, <1>4, <1>7 DEF Rests, Still, SamePlace, wires
<1> QED
  BY <1>6, <1>7

(* So does the selection of a frame: a frame is shown only while connected.*)
LEMMA UserSelectsFrameKinds ==
  ASSUME IInv, UserSelectsFrame
  PROVE  Asks
<1>1. PICK row \in DOMAIN ui.stack.frames : stack_selection_function(row)
  BY DEF UserSelectsFrame
<1> DEFINE level == AsChar(row - 1)
           c == [cs EXCEPT !.last_selected_stack_frame = level]
           d == WithList(c, "SELECT_STACK")
<1>2. cs \in ClientStates /\ ui.stack.frames \in Seq(Files)
  BY DEF IInv, TypeOK, ClientTypeOK, Widgets
<1>3. /\ ~ dispatching /\ cs' = Requests(d, "stack_get", NULL)
      /\ UNCHANGED <<conn, dispatching, wires>>
      /\ Clicks
  BY <1>1 DEF stack_selection_function, UserSelectsFrame
<1>4. conn = "open"
  BY <1>2 DEF IInv, RowsOnlyWhenConnected
<1>5. level \in Int
  BY <1>2 DEF AsChar
<1>6. c \in ClientStates
  <2> HIDE DEF level
  <2> QED
    BY <1>2, <1>5, Zenon DEF ClientStates
<1>7. c.last_tid = cs.last_tid /\ c.message = cs.message
  <2> HIDE DEF level
  <2> QED
    BY <1>2, Zenon DEF ClientStates
<1>8. /\ d \in ClientStates /\ d.last_tid = c.last_tid /\ d.message = c.message
  <2>1. "SELECT_STACK" \in ListNames
    BY DEF ListNames
  <2>2. d \in ClientStates /\ d.last_tid = c.last_tid
    BY <1>6, <2>1, WithListFields
  <2> HIDE DEF c
  <2>3. d.message = c.message
    BY <1>6 DEF WithList, ClientStates
  <2> QED
    BY <2>2, <2>3
<1>9. \A t \in Nat : Cmd("stack_get", t, NULL) \in Commands
  BY CommandTyped
<1> HIDE DEF d, c
<1> QED
  BY <1>3, <1>4, <1>7, <1>8, <1>9, ClickAsks

(* And of a variable. *)
LEMMA UserSelectsVariableKinds ==
  ASSUME IInv, UserSelectsVariable
  PROVE  Asks
<1>1. PICK row \in VarRows : varview_selection_function(row)
  BY DEF UserSelectsVariable
<1> DEFINE c == RowRemembered(cs, row)
           d == WithList(c, "FETCH_PROPERTY")
<1>2. cs \in ClientStates /\ row \in VarRows \cup {NULL}
  BY DEF IInv, TypeOK, ClientTypeOK
<1>3. /\ ~ dispatching /\ cs' = Requests(d, "property_get", row)
      /\ UNCHANGED <<conn, dispatching, wires>>
      /\ Clicks /\ row \in ui.vars.hints
  BY <1>1 DEF varview_selection_function, UserSelectsVariable
<1>4. conn = "open"
  BY <1>3 DEF IInv, RowsOnlyWhenConnected, HintsAreRows
<1>5. c \in ClientStates
  BY <1>2, Zenon DEF ClientStates, RowRemembered
<1>6. c.last_tid = cs.last_tid /\ c.message = cs.message
  BY <1>2 DEF ClientStates, RowRemembered
<1>7. /\ d \in ClientStates /\ d.last_tid = c.last_tid /\ d.message = c.message
  <2>1. "FETCH_PROPERTY" \in ListNames
    BY DEF ListNames
  <2>2. d \in ClientStates /\ d.last_tid = c.last_tid
    BY <1>5, <2>1, WithListFields
  <2> HIDE DEF c
  <2>3. d.message = c.message
    BY <1>5 DEF WithList, ClientStates
  <2> QED
    BY <2>2, <2>3
<1>8. \A t \in Nat : Cmd("property_get", t, row) \in Commands
  BY CommandTyped
<1> HIDE DEF d, c
<1> QED
  BY <1>3, <1>4, <1>6, <1>7, <1>8, ClickAsks


(* A document is taken from the stream: a list takes it up, or, between    *)
(* lists, nobody does.                                                     *)
LEMMA SocketReadableKinds ==
  ASSUME IInv, SocketReadable
  PROVE  Receives
<1>1. ReadStep /\ UNCHANGED engine
  BY DEF SocketReadable
<1>2. cs \in ClientStates /\ toClient \in Seq(Messages) /\ dispatching \in BOOLEAN
  BY DEF IInv, TypeOK, ClientTypeOK
<1>3. ASSUME NEW c \in ClientStates, Reads(c),
             c.command = cs.command, c.last_tid = cs.last_tid,
             dispatching' \/ (~ dispatching' /\ c.server_state = "INPUT")
      PROVE  Receives
  <2> DEFINE m == Head(toClient)
  <2>1. /\ conn = "open" /\ ~ dispatching /\ toClient # << >>
        /\ cs' = [c EXCEPT !.message = m]
        /\ toClient' = Tail(toClient)
        /\ UNCHANGED <<conn, toEngine>>
    BY <1>3 DEF Reads
  <2> HIDE DEF m
  <2>2. /\ cs'.message = m /\ cs'.command = c.command
        /\ cs'.last_tid = c.last_tid /\ cs'.server_state = c.server_state
    BY <1>3, <2>1 DEF ClientStates
  <2> QED
    BY <1>1, <1>3, <2>1, <2>2 DEF Receives, m
<1>4. \A list \in ListNames, c \in ClientStates :
         c.command = cs.command /\ c.last_tid = cs.last_tid
         => /\ WithList(c, list) \in ClientStates
            /\ WithList(c, list).command = cs.command
            /\ WithList(c, list).last_tid = cs.last_tid
  BY WithListFields
<1>5. {"INITIAL", "BREAK", "STOPPED"} \subseteq ListNames
  BY DEF ListNames
<1>6. CASE process_state_input_init
  <2> DEFINE file == Head(toClient).data
             c    == [cs EXCEPT !.last_source_file = file]
  <2>1. toClient # << >> /\ Head(toClient).kind = "init"
        /\ Reads(WithList(c, "INITIAL")) /\ dispatching' = TRUE
    BY <1>6 DEF process_state_input_init
  <2>2. file \in Files \cup {NULL}
    BY <1>2, <2>1, FramesTyped
  <2> HIDE DEF file
  <2>3. c \in ClientStates
    BY <1>2, <2>2, Zenon DEF ClientStates
  <2>4. c.command = cs.command /\ c.last_tid = cs.last_tid
    BY <1>2 DEF ClientStates
  <2> HIDE DEF c
  <2> QED
    BY <1>3, <1>4, <1>5, <2>1, <2>3, <2>4
<1>7. CASE process_state_input_break
  BY <1>2, <1>3, <1>4, <1>5, <1>7 DEF process_state_input_break
<1>8. CASE process_state_input_stopped
  BY <1>2, <1>3, <1>4, <1>5, <1>8 DEF process_state_input_stopped
<1>9. CASE process_state_input_other
  <2>1. cs.server_state = "INPUT" /\ Reads(cs) /\ ~ dispatching'
    BY <1>9 DEF process_state_input_other, Reads
  <2> QED
    BY <1>2, <1>3, <2>1
<1>10. CASE process_request
  BY <1>2, <1>3, <1>10 DEF process_request
<1> QED
  BY <1>1, <1>6, <1>7, <1>8, <1>9, <1>10 DEF ReadStep

(* The command that is written goes to the end of the stream. *)
LEMMA SocketWritableKinds ==
  ASSUME IInv, SocketWritable
  PROVE  Writes
<1>1. /\ conn = "open" /\ ~ dispatching /\ cs.out
      /\ toEngine' = Append(toEngine, cs.command)
      /\ cs' = [cs EXCEPT !.command = NULL, !.out = FALSE]
      /\ UNCHANGED <<conn, dispatching, toClient, engine>>
  BY DEF SocketWritable, IoWrite, WritesOut, Written
<1>2. cs \in ClientStates /\ cs.command # NULL
  BY <1>1 DEF IInv, TypeOK, ClientTypeOK, OutIffCommand
<1>3. /\ cs'.command = NULL /\ cs'.last_tid = cs.last_tid
      /\ cs'.message = cs.message
      /\ cs'.server_state = cs.server_state
      /\ cs'.action_list = cs.action_list
      /\ cs'.action_list_ptr = cs.action_list_ptr
  BY <1>1, <1>2, Zenon DEF ClientStates
<1> QED
  BY <1>1, <1>2, <1>3 DEF Writes, SamePlace

(* The engine's documents have a transaction id and are not greetings. *)
LEMMA SendsSays ==
  ASSUME NEW t \in Nat, NEW kind, kind # "init", NEW data,
         Msg(kind, t, data) \in Messages, Sends(kind, t, data)
  PROVE  Says(t)
<1>1. Msg(kind, t, data).tid = t /\ Msg(kind, t, data).kind = kind
  BY DEF Msg
<1> QED
  BY <1>1 DEF Says, Sends

(* A command the engine takes is answered, run, or the last one. *)
LEMMA EngineAnswersKinds ==
  ASSUME IInv, EngineAnswers, UNCHANGED clientVars
  PROVE  Handles
<1> DEFINE c == Head(toEngine)
<1>1. EnginesTyped
  BY DEF IInv, TypeOK, EnginesTyped
<1>2. PICK verbs : Takes(verbs)
  BY DEF EngineAnswers, EngineContinues, EngineLeaves, EngineRefuses, EngineSendsSource,
         EngineSendsStack, EngineSendsContext, EngineSendsProperty, EngineAccepts
<1>3. /\ c \in Commands /\ c.tid \in Nat
      /\ toEngine # << >> /\ toEngine' = Tail(toEngine)
      /\ engine.phase \in {"starting", "break", "stopping"}
  BY <1>1, <1>2, TakesTyped DEF Takes
<1>4. engine.phase # "running" /\ EngineTypeOK /\ engine.stop \in Nat
      /\ engine.frames \in Seq(Files)
  BY <1>1, <1>3, EngineFields DEF EnginesTyped
<1>5. ASSUME Says(c.tid), engine'.phase # "running" PROVE Handles
  BY <1>3, <1>5 DEF Handles
<1>6. Msg("error", c.tid, NULL) \in Messages /\ Msg("ok", c.tid, NULL) \in Messages
      /\ Msg("stopped", c.tid, NULL) \in Messages
  BY <1>3, MessagesTyped
<1>7. ASSUME Sends("error", c.tid, NULL) PROVE Says(c.tid)
  BY <1>3, <1>6, <1>7, SendsSays
<1>8. CASE EngineContinues
  <2>1. UNCHANGED toClient
    BY <1>8 DEF EngineContinues
  <2>2. CASE engine.phase = "stopping"
    <3>1. engine' = [engine EXCEPT !.phase = "gone"]
      BY <1>8, <2>2 DEF EngineContinues
    <3>2. engine'.phase = "gone"
      BY <1>4, <3>1 DEF EngineTypeOK
    <3> QED
      BY <1>3, <2>1, <3>2 DEF Handles
  <2>3. CASE engine.phase # "stopping"
    <3>1. engine' = [engine EXCEPT !.phase = "running", !.run_tid = c.tid]
      BY <1>8, <2>3 DEF EngineContinues
    <3> HIDE DEF c
    <3>2. engine'.phase = "running" /\ engine'.run_tid = c.tid
      BY <1>4, <3>1 DEF EngineTypeOK
    <3> QED
      BY <1>3, <2>1, <3>2 DEF Handles, c
  <2> QED
    BY <2>2, <2>3
<1>9. CASE EngineLeaves
  <2>1. engine' = [engine EXCEPT !.phase = "gone"]
    BY <1>9 DEF EngineLeaves
  <2>2. engine'.phase = "gone"
    BY <1>4, <2>1 DEF EngineTypeOK
  <2>3. Says(c.tid) \/ UNCHANGED toClient
    BY <1>3, <1>6, <1>9, SendsSays DEF EngineLeaves
  <2> QED
    BY <1>3, <2>2, <2>3 DEF Handles
<1>10. CASE EngineRefuses
  BY <1>4, <1>5, <1>7, <1>10 DEF EngineRefuses
<1>11. CASE EngineSendsSource
  <2>1. c.arg \in Files => Msg("source", c.tid, c.arg) \in Messages
    BY <1>3, MessagesTyped
  <2>2. Says(c.tid)
    BY <1>3, <1>7, <1>11, <2>1, SendsSays DEF EngineSendsSource
  <2> QED
    BY <1>4, <1>5, <1>11, <2>2 DEF EngineSendsSource
<1>12. CASE EngineSendsStack
  <2> DEFINE frames == IF engine.phase = "break" THEN engine.frames ELSE << >>
             data   == [stop |-> engine.stop, frames |-> frames]
  <2>1. frames \in Seq(Files)
    BY <1>4
  <2>2. Sends("stack", c.tid, data)
    BY <1>12 DEF EngineSendsStack
  <2>3. Msg("stack", c.tid, data) \in Messages
    <3> HIDE DEF frames
    <3> QED
      BY <1>3, <1>4, <2>1, MessagesTyped
  <2>4. Says(c.tid)
    BY <1>3, <2>2, <2>3, SendsSays
  <2> QED
    BY <1>4, <1>5, <1>12, <2>4 DEF EngineSendsStack
<1>13. CASE EngineSendsContext
  <2> DEFINE data == [stop |-> engine.stop, level |-> c.arg]
  <2>1. c.arg \in Int
    BY <1>1, <1>13, TakesTyped
       DEF EngineSendsContext, Commands, ButtonVerbs, ContinueVerbs, EndVerbs
  <2>2. Msg("context", c.tid, data) \in Messages
    BY <1>3, <1>4, <2>1, MessagesTyped
  <2>3. Says(c.tid)
    BY <1>3, <1>7, <1>13, <2>2, SendsSays DEF EngineSendsContext
  <2> QED
    BY <1>4, <1>5, <1>13, <2>3 DEF EngineSendsContext
<1>14. CASE EngineSendsProperty
  <2>1. c.arg \in VarRows
    BY <1>1, <1>14, TakesTyped
       DEF EngineSendsProperty, Commands, ButtonVerbs, ContinueVerbs, EndVerbs
  <2>2. Msg("property", c.tid, c.arg) \in Messages
    BY <1>3, <2>1, MessagesTyped
  <2>3. Says(c.tid)
    BY <1>3, <1>7, <1>14, <2>2, SendsSays DEF EngineSendsProperty
  <2> QED
    BY <1>4, <1>5, <1>14, <2>3 DEF EngineSendsProperty
<1>15. CASE EngineAccepts
  <2> DEFINE points   == engine.breakpoints \cup {c.arg}
             features == engine.features \cup {c.arg}
  <2>1. \/ engine' = [engine EXCEPT !.breakpoints = points]
        \/ engine' = [engine EXCEPT !.features = features]
    BY <1>15 DEF EngineAccepts
  <2>2. Says(c.tid)
    BY <1>3, <1>6, <1>15, SendsSays DEF EngineAccepts
  <2> HIDE DEF points, features
  <2>3. engine'.phase = engine.phase
    BY <1>4, <2>1 DEF EngineTypeOK
  <2> QED
    BY <1>4, <1>5, <2>2, <2>3
<1> QED
  BY <1>8, <1>9, <1>10, <1>11, <1>12, <1>13, <1>14, <1>15 DEF EngineAnswers

(* A script that halts answers the command that made it run. *)
LEMMA ScriptKinds ==
  ASSUME IInv, ScriptStops \/ ScriptEnds, UNCHANGED clientVars
  PROVE  Halts
<1>1. EngineTypeOK /\ engine.run_tid \in Nat
  BY EngineFields DEF IInv, TypeOK
<1>2. engine.phase = "running" /\ UNCHANGED toEngine
  BY DEF ScriptStops, ScriptEnds
<1>3. Says(engine.run_tid)
  <2>1. /\ Msg("break", engine.run_tid, NULL) \in Messages
        /\ Msg("stopped", engine.run_tid, NULL) \in Messages
    BY <1>1, MessagesTyped
  <2>2. \/ Sends("break", engine.run_tid, NULL)
        \/ Sends("stopped", engine.run_tid, NULL)
    BY DEF ScriptStops, ScriptEnds
  <2> QED
    BY <1>1, <2>1, <2>2, SendsSays
<1>4. engine'.phase \in {"break", "stopping"}
  BY <1>1 DEF EngineTypeOK, ScriptStops, ScriptEnds
<1> QED
  BY <1>2, <1>3, <1>4 DEF Halts

(* Every step of the session is of one of these kinds. *)
LEMMA StepKinds ==
  ASSUME IInv, [Next]_vars
  PROVE  \/ Goes \/ Rests \/ Asks \/ Receives \/ Writes
         \/ Loses \/ Opens \/ Handles \/ Halts \/ Vanishes
<1>1. CASE Connect
  <2>1. PICK file \in Files : Connects(file)
    BY <1>1 DEF Connect
  <2>2. engine' = [engine EXCEPT !.phase = "starting", !.frames = << >>,
                                 !.breakpoints = {}, !.features = {}]
    BY <2>1 DEF Connects
  <2>3. engine'.phase = "starting"
    BY <2>2 DEF IInv, TypeOK, EngineTypeOK
  <2>4. ~ dispatching
    BY <1>1 DEF Connect, async_accept, IInv, Reading
  <2> QED
    BY <1>1, <2>1, <2>3, <2>4 DEF Opens, Connect, Connects, async_accept
<1>2. CASE UserPresses
  BY <1>2, UserPressesKinds
<1>3. CASE UserPressesTooEarly \/ UserPressesUnconnected
  BY <1>3 DEF UserPressesTooEarly, UserPressesUnconnected, process_a_button_no_frames,
              process_a_button_no_connection, Crash, Clicks, wires, Rests, Still, SamePlace
<1>4. CASE UserSelectsFrame
  BY <1>4, UserSelectsFrameKinds
<1>5. CASE UserSelectsVariable
  BY <1>5, UserSelectsVariableKinds
<1>6. CASE SocketReadable
  BY <1>6, SocketReadableKinds
<1>7. CASE SocketWritable
  BY <1>7, SocketWritableKinds
<1>8. CASE SocketError
  BY <1>8 DEF SocketError, IoError, Loses
<1>9. CASE Dispatches
  BY <1>9, DispatchKinds
<1>10. CASE EngineStep
  BY <1>10, EngineAnswersKinds, ScriptKinds DEF EngineStep
<1>11. CASE EngineFails
  <2>1. engine' = [engine EXCEPT !.phase = "gone"]
    BY <1>11 DEF EngineFails, EngineDies
  <2>2. engine'.phase = "gone"
    BY <2>1 DEF IInv, TypeOK, EngineTypeOK
  <2> QED
    BY <1>11, <2>2 DEF EngineFails, EngineDies, wires, Vanishes
<1>12. CASE UNCHANGED vars
  BY <1>12 DEF vars, clientVars, wires, Rests, Still, SamePlace
<1> QED
  BY <1>1, <1>2, <1>3, <1>4, <1>5, <1>6, <1>7, <1>8, <1>9, <1>10, <1>11, <1>12 DEF Next
-----------------------------------------------------------------------------
(* A waiting client is owed an answer. *)

(* The client's place in its list decides whether it fell off. *)
LEMMA FellOffKept ==
  ASSUME SamePlace
  PROVE  FellOff' <=> FellOff
  BY DEF SamePlace, FellOff

(* A list that has stopped to wait is owed the answer to the last command; *)
(* every step keeps the id under way until its answer is taken up, or the  *)
(* engine is gone.                                                         *)
LEMMA WaitsKept ==
  ASSUME IInv, WaitsForAnAnswer, [Next]_vars
  PROVE  WaitsForAnAnswer'
<1> SUFFICES ASSUME conn' = "open", engine'.phase # "gone",
                    ~ dispatching', cs'.server_state # "INPUT",
                    ~ FellOff'
             PROVE  cs'.last_tid \in Outstanding'
  BY DEF WaitsForAnAnswer
<1> DEFINE owed == cs.last_tid \in Outstanding
<1>1. /\ toEngine \in Seq(Commands) /\ toClient \in Seq(Messages)
      /\ cs \in ClientStates
  BY DEF IInv, TypeOK, ClientTypeOK
<1>2. ASSUME conn = "open", engine.phase # "gone", SamePlace
      PROVE  owed
  <2>1. ~ dispatching /\ cs.server_state # "INPUT" /\ ~ FellOff
    BY <1>2, FellOffKept DEF SamePlace
  <2> QED
    BY <1>2, <2>1 DEF WaitsForAnAnswer
<1>3. NewClientState.server_state = "INPUT"
  BY NewFields
<1>4. CASE Goes
  BY <1>4 DEF Goes
<1>5. CASE Rests
  <2>1. owed
    BY <1>2, <1>5 DEF Rests, Still
  <2> QED
    BY <1>5, <2>1 DEF Rests, Still, Outstanding
<1>6. CASE Asks
  <2>1. cs'.command # NULL /\ cs'.command.tid = cs'.last_tid
    BY <1>6, NullAssumption DEF Asks
  <2> QED
    BY <2>1 DEF Outstanding
<1>7. CASE Receives
  BY <1>7 DEF Receives
<1>8. CASE Writes
  <2>1. owed
    BY <1>2, <1>8 DEF Writes
  <2>2. cs.command \in Commands
    BY <1>1, <1>8, FieldTypes DEF Writes
  <2>3. CASE cs.last_tid = cs.command.tid
    <3>1. Len(toEngine) + 1 \in DOMAIN toEngine' /\ toEngine'[Len(toEngine) + 1] = cs.command
      BY <1>1, <1>8, <2>2 DEF Writes
    <3> QED
      BY <1>8, <2>3, <3>1 DEF Writes, Outstanding
  <2>4. CASE cs.last_tid \in {toEngine[i].tid : i \in DOMAIN toEngine}
    <3>1. PICK i \in DOMAIN toEngine : cs.last_tid = toEngine[i].tid
      BY <2>4
    <3>2. i \in DOMAIN toEngine' /\ toEngine'[i] = toEngine[i]
      BY <1>1, <1>8, <2>2 DEF Writes
    <3> QED
      BY <1>8, <3>1, <3>2 DEF Writes, Outstanding
  <2>5. CASE \/ engine.phase = "running" /\ cs.last_tid = engine.run_tid
             \/ cs.last_tid \in {toClient[i].tid : i \in DOMAIN toClient}
    BY <1>8, <2>5 DEF Writes, Outstanding
  <2> QED
    BY <2>1, <2>3, <2>4, <2>5 DEF Outstanding
<1>9. CASE Loses \/ Opens
  BY <1>3, <1>9 DEF Loses, Opens
<1>10. ASSUME NEW t, Says(t), toClient \in Seq(Messages)
       PROVE  /\ t \in {toClient[i].tid : i \in DOMAIN toClient}'
              /\ {toClient[i].tid : i \in DOMAIN toClient}
                    \subseteq {toClient[i].tid : i \in DOMAIN toClient}'
  <2>1. PICK m \in Messages : m.tid = t /\ toClient' = Append(toClient, m)
    BY <1>10 DEF Says
  <2>2. /\ Len(toClient) + 1 \in DOMAIN toClient' /\ toClient'[Len(toClient) + 1] = m
        /\ \A i \in DOMAIN toClient : i \in DOMAIN toClient' /\ toClient'[i] = toClient[i]
    BY <1>10, <2>1
  <2> QED
    BY <2>1, <2>2
<1>11. CASE Handles
  <2>1. UNCHANGED <<conn, dispatching, cs>> /\ SamePlace
    BY <1>11 DEF Handles, clientVars, SamePlace
  <2>2. owed
    BY <1>2, <1>11, <2>1 DEF Handles
  <2>3. engine.phase # "running" /\ toEngine # << >> /\ toEngine' = Tail(toEngine)
    BY <1>11 DEF Handles
  <2>4. \/ Says(Head(toEngine).tid)
        \/ UNCHANGED toClient /\ engine'.phase = "running"
           /\ engine'.run_tid = Head(toEngine).tid
    BY <1>11 DEF Handles
  <2>5. CASE cs.command # NULL /\ cs.last_tid = cs.command.tid
    BY <2>1, <2>5 DEF Outstanding
  <2>6. CASE cs.last_tid \in {toEngine[i].tid : i \in DOMAIN toEngine}
    <3>1. PICK i \in DOMAIN toEngine : cs.last_tid = toEngine[i].tid
      BY <2>6
    <3>2. CASE i = 1
      <4>1. cs.last_tid = Head(toEngine).tid
        BY <1>1, <2>3, <3>1, <3>2
      <4> QED
        BY <1>1, <1>10, <2>1, <2>4, <4>1 DEF Outstanding
    <3>3. CASE i # 1
      <4>1. i - 1 \in DOMAIN toEngine' /\ toEngine'[i - 1] = toEngine[i]
        BY <1>1, <2>3, <3>1, <3>3
      <4> QED
        BY <2>1, <3>1, <4>1 DEF Outstanding
    <3> QED
      BY <3>2, <3>3
  <2>7. CASE cs.last_tid \in {toClient[i].tid : i \in DOMAIN toClient}
    BY <1>1, <1>10, <2>1, <2>4, <2>7 DEF Outstanding
  <2> QED
    BY <2>2, <2>3, <2>5, <2>6, <2>7 DEF Outstanding
<1>12. CASE Halts
  <2>1. UNCHANGED <<conn, dispatching, cs, toEngine>> /\ SamePlace
        /\ Says(engine.run_tid) /\ engine.phase = "running"
    BY <1>12 DEF Halts, clientVars, SamePlace
  <2>2. owed
    BY <1>2, <2>1
  <2> QED
    BY <1>1, <1>10, <2>1, <2>2 DEF Outstanding
<1>13. CASE Vanishes
  BY <1>13 DEF Vanishes
<1> QED
  BY <1>4, <1>5, <1>6, <1>7, <1>8, <1>9, <1>11, <1>12, <1>13, StepKinds

(* Whatever the user clicks and whatever the engine does, a client in the  *)
(* middle of a list waits for a document that is on its way, or stands     *)
(* behind a wrapper without a return.                                      *)
THEOREM WaitingIsOwed == Spec => []WaitsForAnAnswer
<1>1. Init => WaitsForAnAnswer
  BY DEF Init, ClientInit, WaitsForAnAnswer
<1>2. IInv /\ WaitsForAnAnswer /\ [Next]_vars => WaitsForAnAnswer'
  BY WaitsKept
<1> QED
  BY <1>1, <1>2, Invariance, PTL DEF Spec
-----------------------------------------------------------------------------
(***************************************************************************)
(* Transaction ids grow along the way.  TidsIncrease speaks of positions   *)
(* in a concatenation; InOrder says the same place by place, which is what *)
(* a step changes.                                                         *)
(***************************************************************************)
Growing(s) == \A i, j \in DOMAIN s : i < j => s[i].tid < s[j].tid

Under(s, n) == \A i \in DOMAIN s : s[i].tid < n

Over(s, n) == \A i \in DOMAIN s : n < s[i].tid

ClientFirst == \A i \in DOMAIN toClient : Over(toEngine, toClient[i].tid)

RunBetween ==
    engine.phase = "running" =>
        /\ Under(toClient, engine.run_tid)
        /\ Over(toEngine, engine.run_tid)
        /\ engine.run_tid <= cs.last_tid

CommandLast ==
    cs.command # NULL =>
        /\ Under(toClient, cs.command.tid) /\ Under(toEngine, cs.command.tid)
        /\ engine.phase = "running" => engine.run_tid < cs.command.tid
        /\ cs.command.tid <= cs.last_tid

InOrder ==
    /\ Growing(toClient) /\ Growing(toEngine)
    /\ Under(toClient, cs.last_tid + 1) /\ Under(toEngine, cs.last_tid + 1)
    /\ ClientFirst
    /\ RunBetween
    /\ CommandLast

Stream(s) == s \in Seq(Commands) \/ s \in Seq(Messages)

(* Everything on a stream has an id. *)
LEMMA StreamTids ==
  ASSUME NEW s, Stream(s)
  PROVE  \A i \in DOMAIN s : s[i].tid \in Nat
<1>1. \A c \in Commands : c.tid \in Nat
  BY DEF Commands
<1>2. \A m \in Messages : m.tid \in Nat
  BY DEF Messages
<1> QED
  BY <1>1, <1>2 DEF Stream

(* Taking the first element leaves a stream in order, *)
LEMMA TailOrder ==
  ASSUME NEW s, Stream(s), s # << >>
  PROVE  /\ Growing(s) => Growing(Tail(s)) /\ Over(Tail(s), Head(s).tid)
         /\ \A n : Under(s, n) => Under(Tail(s), n) /\ Head(s).tid < n
         /\ \A n : Over(s, n) => Over(Tail(s), n) /\ n < Head(s).tid
<1>1. /\ 1 \in DOMAIN s /\ Head(s) = s[1]
      /\ \A i \in DOMAIN Tail(s) : i \in Nat /\ i + 1 \in DOMAIN s /\ 1 < i + 1 /\ Tail(s)[i] = s[i + 1]
  BY DEF Stream
<1>2. Growing(s) => Growing(Tail(s)) /\ Over(Tail(s), Head(s).tid)
  BY <1>1 DEF Growing, Over
<1>3. \A n : Under(s, n) => Under(Tail(s), n) /\ Head(s).tid < n
  BY <1>1 DEF Under
<1>4. \A n : Over(s, n) => Over(Tail(s), n) /\ n < Head(s).tid
  BY <1>1 DEF Over
<1> QED
  BY <1>2, <1>3, <1>4

(* and so does putting one with a greater id behind the last. *)
LEMMA AppendOrder ==
  ASSUME NEW S \in {Commands, Messages}, NEW s \in Seq(S), NEW x \in S
  PROVE  /\ Growing(s) /\ Under(s, x.tid) => Growing(Append(s, x))
         /\ \A n : Under(s, n) /\ x.tid < n => Under(Append(s, x), n)
         /\ \A n : Over(s, n) /\ n < x.tid => Over(Append(s, x), n)
<1> DEFINE t == Append(s, x)
<1>1. \A i \in DOMAIN t : \/ i \in DOMAIN s /\ t[i] = s[i]
                          \/ i = Len(s) + 1 /\ t[i] = x
  OBVIOUS
<1>2. \A i \in DOMAIN s : i \in Nat /\ i < Len(s) + 1
  OBVIOUS
<1>3. Len(s) \in Nat
  OBVIOUS
<1> HIDE DEF t
<1>4. Growing(s) /\ Under(s, x.tid) => Growing(t)
  BY <1>1, <1>2, <1>3 DEF Growing, Under
<1>5. \A n : Under(s, n) /\ x.tid < n => Under(t, n)
  BY <1>1 DEF Under
<1>6. \A n : Over(s, n) /\ n < x.tid => Over(t, n)
  BY <1>1 DEF Over
<1> QED
  BY <1>4, <1>5, <1>6 DEF t

(* No ids, no order to keep. *)
LEMMA EmptyOrder ==
  Growing(<< >>) /\ \A n : Under(<< >>, n) /\ Over(<< >>, n)
  BY DEF Growing, Under, Over

(* Order among integers is transitive: a bound may be weakened. *)
LEMMA Weaken ==
  ASSUME NEW s, Stream(s), NEW m \in Int, NEW n \in Int, m <= n
  PROVE  /\ Under(s, m) => Under(s, n)
         /\ Over(s, n) => Over(s, m)
  BY StreamTids DEF Under, Over


(* A document with an id between those sent and those asked keeps order.   *)
LEMMA SaysOrder ==
  ASSUME toClient \in Seq(Messages), NEW t \in Nat, Says(t),
         Growing(toClient), Under(toClient, t), ClientFirst,
         Over(toEngine', t), \A n : Over(toEngine, n) => Over(toEngine', n)
  PROVE  /\ Growing(toClient')
         /\ ClientFirst'
         /\ \A n : Under(toClient, n) /\ t < n => Under(toClient', n)
<1>1. PICK m \in Messages : m.tid = t /\ toClient' = Append(toClient, m)
  BY DEF Says
<1>2. /\ Growing(toClient')
      /\ \A n : Under(toClient, n) /\ t < n => Under(toClient', n)
  BY <1>1, AppendOrder
<1>3. \A i \in DOMAIN toClient' : \/ i \in DOMAIN toClient /\ toClient'[i] = toClient[i]
                                  \/ toClient'[i].tid = t
  BY <1>1
<1>4. ClientFirst'
  BY <1>3 DEF ClientFirst
<1> QED
  BY <1>2, <1>4

(* No step of any kind disturbs the order. *)
LEMMA OrderKept ==
  ASSUME IInv, InOrder, [Next]_vars
  PROVE  InOrder'
<1> DEFINE h == Head(toEngine).tid
           r == engine.run_tid
           k == cs.command.tid
           l == cs.last_tid
<1>1. /\ toEngine \in Seq(Commands) /\ toClient \in Seq(Messages)
      /\ Stream(toEngine) /\ Stream(toClient)
      /\ cs \in ClientStates /\ l \in Nat /\ r \in Nat
      /\ cs.command \in Commands \cup {NULL}
      /\ cs.command # NULL => k \in Nat
  <2>1. /\ toEngine \in Seq(Commands) /\ toClient \in Seq(Messages)
        /\ cs \in ClientStates /\ r \in Nat
    BY EngineFields DEF IInv, TypeOK, ClientTypeOK
  <2>2. \A c \in Commands : c.tid \in Nat
    BY DEF Commands
  <2> QED
    BY <2>1, <2>2, FieldTypes DEF Stream
<1>2. /\ Growing(toClient) /\ Growing(toEngine) /\ ClientFirst
      /\ Under(toClient, l + 1) /\ Under(toEngine, l + 1)
      /\ RunBetween /\ CommandLast
  BY DEF InOrder
<1>3. CASE Goes \/ Rests \/ Vanishes
  <2>1. /\ UNCHANGED <<toEngine, toClient>> /\ cs'.command = cs.command
        /\ cs'.last_tid = l
        /\ engine' = engine \/ engine'.phase = "gone"
    BY <1>3 DEF Goes, Rests, Still, Vanishes, clientVars
  <2>2. RunBetween'
    BY <1>2, <2>1 DEF RunBetween
  <2>3. CommandLast'
    BY <1>2, <2>1 DEF CommandLast
  <2> QED
    BY <1>2, <2>1, <2>2, <2>3 DEF InOrder, ClientFirst
<1>4. CASE Asks
  <2>1. /\ UNCHANGED <<toEngine, toClient, engine>>
        /\ cs'.last_tid = l + 1 /\ cs'.command.tid = l + 1
    BY <1>4 DEF Asks
  <2>2. Under(toClient, l + 2) /\ Under(toEngine, l + 2)
    BY <1>1, <1>2, Weaken
  <2>3. RunBetween'
    BY <1>1, <1>2, <2>1 DEF RunBetween
  <2>4. CommandLast'
    BY <1>1, <1>2, <2>1 DEF CommandLast, RunBetween
  <2>5. cs'.last_tid + 1 = l + 2
    BY <1>1, <2>1
  <2> QED
    BY <1>2, <2>1, <2>2, <2>3, <2>4, <2>5 DEF InOrder, ClientFirst
<1>5. CASE Receives
  <2>1. /\ UNCHANGED <<toEngine, engine>> /\ toClient' = Tail(toClient) /\ toClient # << >>
        /\ cs'.last_tid = l /\ cs'.command = cs.command
    BY <1>5 DEF Receives
  <2>2. /\ Growing(toClient') /\ \A n : Under(toClient, n) => Under(toClient', n)
    BY <1>1, <1>2, <2>1, TailOrder
  <2>3. ClientFirst'
    <3>1. \A i \in DOMAIN toClient' : i + 1 \in DOMAIN toClient /\ toClient'[i] = toClient[i + 1]
      BY <1>1, <2>1
    <3> QED
      BY <1>2, <2>1, <3>1 DEF ClientFirst
  <2>4. RunBetween' /\ CommandLast'
    BY <1>2, <2>1, <2>2 DEF RunBetween, CommandLast
  <2> QED
    BY <1>2, <2>1, <2>2, <2>3, <2>4 DEF InOrder
<1>6. CASE Writes
  <2>1. /\ UNCHANGED <<toClient, engine>> /\ toEngine' = Append(toEngine, cs.command)
        /\ cs'.last_tid = l /\ cs'.command = NULL /\ cs.command # NULL
    BY <1>6 DEF Writes
  <2>2. /\ Under(toClient, k) /\ Under(toEngine, k) /\ k <= l /\ k < l + 1
        /\ engine.phase = "running" => r < k
    BY <1>1, <1>2, <2>1 DEF CommandLast
  <2>3. /\ Growing(toEngine') /\ Under(toEngine', l + 1)
        /\ \A n : Over(toEngine, n) /\ n < k => Over(toEngine', n)
    BY <1>1, <1>2, <2>1, <2>2, AppendOrder
  <2>4. ClientFirst'
    BY <1>2, <2>1, <2>2, <2>3 DEF ClientFirst, Under
  <2>5. RunBetween' /\ CommandLast'
    BY <1>2, <2>1, <2>2, <2>3 DEF RunBetween, CommandLast
  <2> QED
    BY <1>2, <2>1, <2>3, <2>4, <2>5 DEF InOrder
<1>7. CASE Loses
  <2>1. /\ toEngine' = << >> /\ toClient' = << >> /\ engine'.phase = "gone"
        /\ cs'.command = NULL
    BY <1>7, NewFields DEF Loses
  <2>2. ClientFirst' /\ RunBetween' /\ CommandLast'
    BY <2>1 DEF ClientFirst, RunBetween, CommandLast
  <2> QED
    BY <2>1, <2>2, EmptyOrder DEF InOrder
<1>8. CASE Opens
  <2>1. PICK file \in Files : toClient' = << Msg("init", 0, file) >>
    BY <1>8 DEF Opens
  <2>2. /\ toEngine' = << >> /\ engine'.phase = "starting"
        /\ cs'.command = NULL /\ cs'.last_tid = 1
    BY <1>8 DEF Opens, NewClientState
  <2>3. /\ \A i \in DOMAIN toClient' : i = 1 /\ toClient'[i].tid = 0
    BY <2>1 DEF Msg
  <2>4. Growing(toClient') /\ Under(toClient', cs'.last_tid + 1)
    BY <2>2, <2>3 DEF Growing, Under
  <2>5. ClientFirst' /\ RunBetween' /\ CommandLast'
    BY <2>2, EmptyOrder DEF ClientFirst, RunBetween, CommandLast
  <2> QED
    BY <2>2, <2>4, <2>5, EmptyOrder DEF InOrder
<1>9. CASE Handles
  <2>1. /\ cs' = cs /\ toEngine # << >> /\ toEngine' = Tail(toEngine)
        /\ engine.phase # "running"
        /\ \/ Says(h) /\ engine'.phase # "running"
           \/ /\ UNCHANGED toClient
              /\ engine'.phase = "running" => engine'.run_tid = h
    BY <1>9 DEF Handles, clientVars
  <2>2. /\ Growing(toEngine') /\ Over(toEngine', h)
        /\ \A n : Under(toEngine, n) => Under(toEngine', n) /\ h < n
        /\ \A n : Over(toEngine, n) => Over(toEngine', n) /\ n < h
    BY <1>1, <1>2, <2>1, TailOrder
  <2>3. h \in Nat /\ Under(toClient, h) /\ h < l + 1
    <3>1. 1 \in DOMAIN toEngine /\ Head(toEngine) = toEngine[1]
      BY <1>1, <2>1
    <3>2. h \in Nat
      BY <1>1, <3>1, StreamTids
    <3> QED
      BY <1>2, <2>2, <3>1, <3>2 DEF ClientFirst, Under
  <2>4. CASE Says(h) /\ engine'.phase # "running"
    <3>1. /\ Growing(toClient') /\ ClientFirst'
          /\ \A n : Under(toClient, n) /\ h < n => Under(toClient', n)
      BY <1>1, <1>2, <2>2, <2>3, <2>4, SaysOrder
    <3>2. RunBetween'
      BY <2>4 DEF RunBetween
    <3>3. CommandLast'
      BY <1>2, <2>1, <2>2, <2>4, <3>1 DEF CommandLast
    <3> QED
      BY <1>2, <2>1, <2>2, <2>3, <3>1, <3>2, <3>3 DEF InOrder
  <2>5. CASE UNCHANGED toClient /\ (engine'.phase = "running" => engine'.run_tid = h)
    <3>1. ClientFirst'
      BY <1>2, <2>2, <2>5 DEF ClientFirst
    <3>2. RunBetween'
      BY <1>1, <2>1, <2>2, <2>3, <2>5 DEF RunBetween
    <3>3. CommandLast'
      BY <1>2, <2>1, <2>2, <2>5 DEF CommandLast
    <3> QED
      BY <1>2, <2>1, <2>2, <2>5, <3>1, <3>2, <3>3 DEF InOrder
  <2> QED
    BY <2>1, <2>4, <2>5
<1>10. CASE Halts
  <2>1. /\ cs' = cs /\ toEngine' = toEngine
        /\ engine.phase = "running" /\ engine'.phase # "running"
        /\ Says(r)
    BY <1>10 DEF Halts, clientVars
  <2>2. Under(toClient, r) /\ Over(toEngine, r) /\ r < l + 1
    BY <1>1, <1>2, <2>1 DEF RunBetween
  <2>3. /\ Growing(toClient') /\ ClientFirst'
        /\ \A n : Under(toClient, n) /\ r < n => Under(toClient', n)
    BY <1>1, <1>2, <2>1, <2>2, SaysOrder
  <2>4. RunBetween' /\ CommandLast'
    BY <1>2, <2>1, <2>3 DEF RunBetween, CommandLast
  <2> QED
    BY <1>2, <2>1, <2>2, <2>3, <2>4 DEF InOrder
<1> QED
  BY <1>3, <1>4, <1>5, <1>6, <1>7, <1>8, <1>9, <1>10, StepKinds


(* Sequences of ids: increasing, and one before the other. *)
Rising(s) == \A i, j \in DOMAIN s : i < j => s[i] < s[j]

Before(s, t) == \A i \in DOMAIN s, j \in DOMAIN t : s[i] < t[j]

(* Of two increasing sequences the second continues the first when all of  *)
(* its elements are greater.                                               *)
LEMMA RisingOn ==
  ASSUME NEW s \in Seq(Nat), NEW t \in Seq(Nat), Rising(s), Rising(t), Before(s, t)
  PROVE  /\ s \o t \in Seq(Nat)
         /\ Rising(s \o t)
         /\ \A u \in Seq(Nat) : Before(s, u) /\ Before(t, u) => Before(s \o t, u)
         /\ \A n \in Nat : (\A i \in DOMAIN s : s[i] <= n) /\ (\A i \in DOMAIN t : t[i] <= n)
                           => \A i \in DOMAIN (s \o t) : (s \o t)[i] <= n
<1> DEFINE c == s \o t
<1>1. /\ c \in Seq(Nat)
      /\ \A i \in DOMAIN c : \/ i \in DOMAIN s /\ c[i] = s[i]
                             \/ i - Len(s) \in DOMAIN t /\ c[i] = t[i - Len(s)] /\ i > Len(s)
      /\ \A i \in DOMAIN c : i \in Nat
      /\ \A i \in DOMAIN s : i \in Nat /\ i <= Len(s)
      /\ Len(s) \in Nat
  OBVIOUS
<1> HIDE DEF c
<1>2. Rising(c)
  <2> SUFFICES ASSUME NEW i \in DOMAIN c, NEW j \in DOMAIN c, i < j
               PROVE  c[i] < c[j]
    BY DEF Rising
  <2>1. CASE i \in DOMAIN s /\ c[i] = s[i]
    <3>1. CASE j \in DOMAIN s /\ c[j] = s[j]
      BY <2>1, <3>1 DEF Rising
    <3>2. CASE j - Len(s) \in DOMAIN t /\ c[j] = t[j - Len(s)]
      BY <2>1, <3>2 DEF Before
    <3> QED
      BY <1>1, <3>1, <3>2
  <2>2. CASE i - Len(s) \in DOMAIN t /\ c[i] = t[i - Len(s)] /\ i > Len(s)
    <3>1. j > Len(s)
      BY <1>1, <2>2
    <3>2. j - Len(s) \in DOMAIN t /\ c[j] = t[j - Len(s)]
      BY <1>1, <3>1
    <3>3. i - Len(s) < j - Len(s)
      BY <1>1
    <3> QED
      BY <2>2, <3>2, <3>3 DEF Rising
  <2> QED
    BY <1>1, <2>1, <2>2
<1>3. \A u \in Seq(Nat) : Before(s, u) /\ Before(t, u) => Before(c, u)
  BY <1>1 DEF Before
<1>4. \A n \in Nat : (\A i \in DOMAIN s : s[i] <= n) /\ (\A i \in DOMAIN t : t[i] <= n)
                     => \A i \in DOMAIN c : c[i] <= n
  BY <1>1
<1> QED
  BY <1>1, <1>2, <1>3, <1>4 DEF c

(* The four parts of Tids. *)
Picked(s) == [i \in DOMAIN s |-> s[i].tid]

Running == IF engine.phase = "running" THEN << engine.run_tid >> ELSE << >>

Unwritten == IF cs.command # NULL THEN << cs.command.tid >> ELSE << >>

(* The ids of a stream are as many, in the same places. *)
LEMMA PickedTids ==
  ASSUME NEW s, Stream(s)
  PROVE  /\ Picked(s) \in Seq(Nat) /\ Len(Picked(s)) = Len(s)
         /\ DOMAIN Picked(s) = DOMAIN s
         /\ \A i \in DOMAIN s : Picked(s)[i] = s[i].tid
<1>1. Len(s) \in Nat /\ DOMAIN s = 1 .. Len(s)
  BY DEF Stream
<1>2. \A i \in DOMAIN s : s[i].tid \in Nat
  BY StreamTids
<1>3. Picked(s) \in [1 .. Len(s) -> Nat]
  BY <1>1, <1>2 DEF Picked
<1>4. Picked(s) \in Seq(Nat) /\ DOMAIN Picked(s) = 1 .. Len(s)
  BY <1>1, <1>3
<1> QED
  BY <1>1, <1>4 DEF Picked

(* In order place by place, the ids increase all along the way. *)
LEMMA OrderMeansIncrease ==
  ASSUME IInv, InOrder
  PROVE  TidsIncrease
<1> DEFINE a == Picked(toClient)
           b == Running
           c == Picked(toEngine)
           d == Unwritten
           l == cs.last_tid
<1>1. /\ Stream(toEngine) /\ Stream(toClient)
      /\ cs \in ClientStates /\ l \in Nat /\ engine.run_tid \in Nat
  BY EngineFields, FieldTypes DEF IInv, TypeOK, ClientTypeOK, Stream
<1>2. cs.command # NULL => cs.command.tid \in Nat
  <2>1. \A x \in Commands : x.tid \in Nat
    BY DEF Commands
  <2> QED
    BY <1>1, <2>1, FieldTypes
<1>3. /\ a \in Seq(Nat) /\ DOMAIN a = DOMAIN toClient
      /\ \A i \in DOMAIN toClient : a[i] = toClient[i].tid
      /\ c \in Seq(Nat) /\ DOMAIN c = DOMAIN toEngine
      /\ \A i \in DOMAIN toEngine : c[i] = toEngine[i].tid
  BY <1>1, PickedTids
<1>4. /\ b \in Seq(Nat)
      /\ \A i \in DOMAIN b : engine.phase = "running" /\ b[i] = engine.run_tid /\ i = 1
  BY <1>1 DEF Running
<1>5. /\ d \in Seq(Nat)
      /\ \A i \in DOMAIN d : cs.command # NULL /\ d[i] = cs.command.tid /\ i = 1
  BY <1>2 DEF Unwritten
<1> HIDE DEF a, b, c, d
<1>6. Rising(a) /\ Rising(b) /\ Rising(c) /\ Rising(d)
  <2>1. Rising(a) /\ Rising(c)
    BY <1>3 DEF Rising, InOrder, Growing
  <2>2. Rising(b)
    BY <1>4 DEF Rising
  <2>3. Rising(d)
    BY <1>5 DEF Rising
  <2> QED
    BY <2>1, <2>2, <2>3
<1>7. /\ Before(a, b) /\ Before(a, c) /\ Before(a, d)
      /\ Before(b, c) /\ Before(b, d) /\ Before(c, d)
  <2>1. Before(a, b)
    BY <1>3, <1>4 DEF Before, InOrder, RunBetween, Under
  <2>2. Before(a, c)
    BY <1>3 DEF Before, InOrder, ClientFirst, Over
  <2>3. Before(a, d)
    BY <1>3, <1>5 DEF Before, InOrder, CommandLast, Under
  <2>4. Before(b, c)
    BY <1>3, <1>4 DEF Before, InOrder, RunBetween, Over
  <2>5. Before(b, d)
    BY <1>4, <1>5 DEF Before, InOrder, CommandLast
  <2>6. Before(c, d)
    BY <1>3, <1>5 DEF Before, InOrder, CommandLast, Under
  <2> QED
    BY <2>1, <2>2, <2>3, <2>4, <2>5, <2>6
<1>8. /\ \A i \in DOMAIN a : a[i] <= l
      /\ \A i \in DOMAIN b : b[i] <= l
      /\ \A i \in DOMAIN c : c[i] <= l
      /\ \A i \in DOMAIN d : d[i] <= l
  <2>1. \A n \in Nat : n < l + 1 => n <= l
    BY <1>1
  <2>2. /\ \A i \in DOMAIN a : a[i] \in Nat /\ a[i] < l + 1
        /\ \A i \in DOMAIN c : c[i] \in Nat /\ c[i] < l + 1
    BY <1>3 DEF InOrder, Under
  <2> QED
    BY <1>4, <1>5, <2>1, <2>2 DEF InOrder, RunBetween, CommandLast
<1>9. /\ c \o d \in Seq(Nat) /\ Rising(c \o d)
      /\ \A i \in DOMAIN (c \o d) : (c \o d)[i] <= l
  BY <1>1, <1>3, <1>5, <1>6, <1>7, <1>8, RisingOn
<1>10. /\ a \o b \in Seq(Nat) /\ Rising(a \o b)
       /\ \A u \in Seq(Nat) : Before(a, u) /\ Before(b, u) => Before(a \o b, u)
       /\ \A i \in DOMAIN (a \o b) : (a \o b)[i] <= l
  BY <1>1, <1>3, <1>4, <1>6, <1>7, <1>8, RisingOn
<1> DEFINE e == a \o b
           f == e \o c
<1> HIDE DEF e
<1>11. Before(e, c) /\ Before(e, d)
  BY <1>3, <1>5, <1>7, <1>10 DEF e
<1>12. /\ f \in Seq(Nat) /\ Rising(f)
       /\ \A u \in Seq(Nat) : Before(e, u) /\ Before(c, u) => Before(f, u)
       /\ \A i \in DOMAIN f : f[i] <= l
  BY <1>1, <1>3, <1>6, <1>8, <1>10, <1>11, RisingOn DEF e
<1> HIDE DEF f
<1>13. Before(f, d)
  BY <1>5, <1>7, <1>11, <1>12
<1>14. Rising(f \o d) /\ \A i \in DOMAIN (f \o d) : (f \o d)[i] <= l
  BY <1>1, <1>5, <1>6, <1>8, <1>12, <1>13, RisingOn
<1>15. Tids = f \o d
  BY Zenon DEF Tids, a, b, c, d, e, f, Picked, Running, Unwritten
<1> QED
  BY <1>14, <1>15 DEF TidsIncrease, Rising

(* Answers come back in the order of the commands: along the way, from the *)
(* next document the client reads to the command it has not written yet,   *)
(* transaction ids increase, whatever is clicked meanwhile.                *)
THEOREM IdsIncrease == Spec => []TidsIncrease
<1>1. Init => InOrder
  BY EmptyOrder
     DEF Init, ClientInit, EngineInit, NewClientState, InOrder, ClientFirst,
         RunBetween, CommandLast
<1>2. IInv /\ InOrder /\ [Next]_vars => InOrder'
  BY OrderKept
<1>3. IInv /\ InOrder => TidsIncrease
  BY OrderMeansIncrease
<1> QED
  BY <1>1, <1>2, <1>3, Invariance, PTL DEF Spec
-----------------------------------------------------------------------------
(***************************************************************************)
(* A user who waits for results.  Request and reply take turns: one place  *)
(* along the way is occupied at most, by the id the next answer will have, *)
(* and none while a document is processed.                                 *)
(***************************************************************************)
Silent ==
    /\ toEngine = << >> /\ toClient = << >>
    /\ engine.phase # "running" /\ cs.command = NULL

OnePlace ==
    /\ Len(toClient) <= 1 /\ Len(toEngine) <= 1
    /\ toClient # << >> =>
          toEngine = << >> /\ engine.phase # "running" /\ cs.command = NULL
    /\ toEngine # << >> => engine.phase # "running" /\ cs.command = NULL
    /\ engine.phase = "running" => cs.command = NULL

Owes(tid) == tid = cs.last_tid /\ Answered + 1 = cs.last_tid

Due ==
    /\ cs.command # NULL => Owes(cs.command.tid)
    /\ engine.phase = "running" => Owes(engine.run_tid)
    /\ toEngine # << >> => Owes(Head(toEngine).tid)
    /\ toClient # << >> =>
          \/ Head(toClient).kind = "init" /\ Answered = 1 /\ cs.last_tid = 1
          \/ Head(toClient).kind # "init" /\ Owes(Head(toClient).tid)
    /\ Silent /\ (dispatching \/ engine.phase # "gone") => Answered = cs.last_tid

Turns ==
    /\ conn = "open" => OnePlace /\ Due /\ (dispatching => Silent)
    /\ conn # "open" => cs.last_tid = 1 /\ cs.message = NULL

(* While nothing is under way the last command is the last answered.       *)
LEMMA MayAsk ==
  ASSUME IInv, Turns, Asks, Patient
  PROVE  Silent /\ Answered = cs.last_tid
<1>1. conn = "open" /\ (dispatching \/ Settled)
  BY DEF Asks
<1>2. Silent /\ (dispatching \/ engine.phase # "gone")
  BY <1>1 DEF Turns, Settled, Silent
<1> QED
  BY <1>1, <1>2 DEF Turns, Due

(* The answer depends on the document alone. *)
LEMMA AnsweredKept ==
  ASSUME cs'.message = cs.message
  PROVE  Answered' = Answered
  BY DEF Answered

(* The first document sent is the first to be read. *)
LEMMA SaysFirst ==
  ASSUME toClient = << >>, NEW t, Says(t)
  PROVE  /\ toClient' # << >> /\ Len(toClient') = 1
         /\ Head(toClient').tid = t /\ Head(toClient').kind # "init"
<1>1. PICK m \in Messages : /\ m.tid = t /\ m.kind # "init"
                            /\ toClient' = Append(toClient, m)
  BY DEF Says
<1>2. toClient' = << m >>
  BY <1>1
<1> QED
  BY <1>1, <1>2

(* No step of a patient session disturbs the turns. *)
LEMMA TurnsKept ==
  ASSUME IInv, Turns, [Next]_vars, Patient
  PROVE  Turns'
<1>1. /\ toEngine \in Seq(Commands) /\ toClient \in Seq(Messages)
      /\ cs \in ClientStates /\ cs.last_tid \in Nat /\ dispatching \in BOOLEAN
      /\ cs.command \in Commands \cup {NULL}
  BY FieldTypes DEF IInv, TypeOK, ClientTypeOK
<1>2. conn = "open" => OnePlace /\ Due /\ (dispatching => Silent)
  BY DEF Turns
<1>3. CASE Goes \/ Rests
  <2>1. /\ UNCHANGED <<conn, toEngine, toClient, engine>>
        /\ cs'.command = cs.command /\ cs'.last_tid = cs.last_tid
        /\ cs'.message = cs.message
        /\ dispatching' => dispatching
    BY <1>3 DEF Goes, Rests, Still, SamePlace
  <2>2. Answered' = Answered /\ (Silent' <=> Silent) /\ (OnePlace' <=> OnePlace)
    BY <2>1, AnsweredKept DEF Silent, OnePlace
  <2>3. conn = "open" => Due'
    BY <1>2, <2>1, <2>2 DEF Due, Owes
  <2> QED
    BY <2>1, <2>2, <2>3 DEF Turns
<1>4. CASE Asks
  <2>1. Silent /\ Answered = cs.last_tid
    BY <1>4, MayAsk
  <2>2. /\ UNCHANGED <<toEngine, toClient, engine>> /\ conn' = "open" /\ ~ dispatching'
        /\ cs'.command.tid = cs'.last_tid /\ cs'.last_tid = cs.last_tid + 1
        /\ Answered' = Answered
        /\ cs'.command # NULL
    BY <1>4, AnsweredKept, NullAssumption DEF Asks
  <2>3. OnePlace'
    BY <2>1, <2>2 DEF OnePlace, Silent
  <2>4. Due'
    BY <1>1, <2>1, <2>2 DEF Due, Owes, Silent
  <2> QED
    BY <2>2, <2>3, <2>4 DEF Turns
<1>5. CASE Receives
  <2> DEFINE m == Head(toClient)
  <2>1. /\ UNCHANGED <<conn, toEngine, engine>> /\ conn = "open"
        /\ toClient # << >> /\ toClient' = Tail(toClient)
        /\ cs'.message = m /\ cs'.command = cs.command
        /\ cs'.last_tid = cs.last_tid
    BY <1>5 DEF Receives
  <2>2. /\ toEngine = << >> /\ engine.phase # "running" /\ cs.command = NULL
        /\ Len(toClient) <= 1
    BY <1>2, <2>1 DEF OnePlace
  <2>3. toClient' = << >> /\ m \in Messages
    BY <1>1, <2>1, <2>2
  <2>4. Silent' /\ OnePlace'
    BY <2>1, <2>2, <2>3 DEF Silent, OnePlace
  <2>5. Answered' = cs.last_tid
    <3>1. m # NULL
      BY <2>3, NullAssumption
    <3>2. CASE m.kind = "init"
      <4>1. cs.last_tid = 1
        BY <1>2, <2>1, <3>2 DEF Due
      <4>2. Answered' = 1
        BY <2>1, <3>2 DEF Answered
      <4> QED
        BY <4>1, <4>2
    <3>3. CASE m.kind # "init"
      <4>1. m.tid = cs.last_tid
        BY <1>2, <2>1, <3>3 DEF Due, Owes
      <4>2. Answered' = m.tid
        BY <2>1, <3>1, <3>3 DEF Answered
      <4> QED
        BY <4>1, <4>2
    <3> QED
      BY <3>2, <3>3
  <2>6. Due'
    BY <2>1, <2>4, <2>5 DEF Due, Silent
  <2> QED
    BY <2>1, <2>4, <2>6 DEF Turns
<1>6. CASE Writes
  <2>1. /\ UNCHANGED <<conn, toClient, engine, dispatching>> /\ conn = "open"
        /\ cs.command # NULL /\ cs'.command = NULL /\ ~ dispatching
        /\ toEngine' = Append(toEngine, cs.command)
        /\ cs'.last_tid = cs.last_tid
        /\ Answered' = Answered
    BY <1>6, AnsweredKept DEF Writes, SamePlace
  <2>2. /\ toEngine = << >> /\ toClient = << >> /\ engine.phase # "running"
        /\ Owes(cs.command.tid)
    BY <1>2, <2>1 DEF OnePlace, Due
  <2>3. toEngine' = << cs.command >>
    BY <2>1, <2>2
  <2>4. toEngine' # << >> /\ Len(toEngine') = 1 /\ Head(toEngine') = cs.command
    BY <2>3
  <2>5. OnePlace'
    BY <2>1, <2>2, <2>4 DEF OnePlace
  <2>6. Due'
    BY <2>1, <2>2, <2>4 DEF Due, Owes, Silent
  <2> QED
    BY <2>1, <2>5, <2>6 DEF Turns
<1>7. CASE Loses
  BY <1>7 DEF Loses, Turns, NewClientState
<1>8. CASE Opens
  <2>1. PICK file \in Files : toClient' = << Msg("init", 0, file) >>
    BY <1>8 DEF Opens
  <2>2. /\ toClient' # << >> /\ Len(toClient') = 1 /\ Head(toClient').kind = "init"
    BY <2>1 DEF Msg
  <2>3. /\ toEngine' = << >> /\ engine'.phase = "starting" /\ ~ dispatching'
        /\ cs'.command = NULL /\ cs'.last_tid = 1 /\ cs'.message = NULL
        /\ conn' = "open"
    BY <1>8 DEF Opens, NewClientState
  <2>4. Answered' = 1
    BY <2>3 DEF Answered
  <2>5. OnePlace' /\ Due'
    BY <2>2, <2>3, <2>4 DEF OnePlace, Due, Silent
  <2> QED
    BY <2>3, <2>5 DEF Turns
<1>9. CASE Handles \/ Halts \/ Vanishes
  <2>1. UNCHANGED <<conn, dispatching, cs>> /\ Answered' = Answered
    BY <1>9, AnsweredKept DEF Handles, Halts, Vanishes, clientVars
  <2>2. CASE conn # "open"
    BY <2>1, <2>2 DEF Turns
  <2>3. CASE conn = "open" /\ Handles
    <3> DEFINE h == Head(toEngine).tid
    <3>1. /\ toEngine # << >> /\ toEngine' = Tail(toEngine)
          /\ \/ Says(h) /\ engine'.phase # "running"
             \/ UNCHANGED toClient /\ engine'.phase = "running" /\ engine'.run_tid = h
             \/ UNCHANGED toClient /\ engine'.phase = "gone"
      BY <2>3 DEF Handles
    <3>2. /\ toClient = << >> /\ cs.command = NULL /\ Len(toEngine) <= 1 /\ Owes(h)
          /\ ~ dispatching
      BY <1>2, <2>3, <3>1 DEF OnePlace, Due, Silent
    <3>3. toEngine' = << >>
      BY <1>1, <3>1, <3>2
    <3> HIDE DEF h
    <3>4. CASE Says(h) /\ engine'.phase # "running"
      <4>1. /\ toClient' # << >> /\ Len(toClient') = 1
            /\ Head(toClient').tid = h /\ Head(toClient').kind # "init"
        BY <3>2, <3>4, SaysFirst
      <4>2. OnePlace'
        BY <2>1, <3>2, <3>3, <3>4, <4>1 DEF OnePlace
      <4>3. Due'
        BY <2>1, <3>2, <3>3, <3>4, <4>1 DEF Due, Owes, Silent
      <4> QED
        BY <2>1, <2>3, <3>2, <4>2, <4>3 DEF Turns
    <3>5. CASE UNCHANGED toClient /\ engine'.phase = "running" /\ engine'.run_tid = h
      <4>1. OnePlace'
        BY <2>1, <3>2, <3>3, <3>5 DEF OnePlace
      <4>2. Due'
        BY <2>1, <3>2, <3>3, <3>5 DEF Due, Owes, Silent
      <4> QED
        BY <2>1, <2>3, <3>2, <4>1, <4>2 DEF Turns
    <3>6. CASE UNCHANGED toClient /\ engine'.phase = "gone"
      <4>1. OnePlace'
        BY <2>1, <3>2, <3>3, <3>6 DEF OnePlace
      <4>2. Due'
        BY <2>1, <3>2, <3>3, <3>6 DEF Due, Owes
      <4> QED
        BY <2>1, <2>3, <3>2, <4>1, <4>2 DEF Turns
    <3> QED
      BY <3>1, <3>4, <3>5, <3>6 DEF h
  <2>4. CASE conn = "open" /\ Halts
    <3>1. /\ engine.phase = "running" /\ engine'.phase # "running" /\ toEngine' = toEngine
          /\ Says(engine.run_tid)
      BY <2>4 DEF Halts
    <3>2. /\ toClient = << >> /\ toEngine = << >> /\ cs.command = NULL
          /\ Owes(engine.run_tid) /\ ~ dispatching
      BY <1>2, <2>4, <3>1 DEF OnePlace, Due, Silent
    <3>3. /\ toClient' # << >> /\ Len(toClient') = 1
          /\ Head(toClient').tid = engine.run_tid /\ Head(toClient').kind # "init"
      BY <3>1, <3>2, SaysFirst
    <3>4. OnePlace'
      BY <2>1, <3>1, <3>2, <3>3 DEF OnePlace
    <3>5. Due'
      BY <2>1, <3>1, <3>2, <3>3 DEF Due, Owes, Silent
    <3> QED
      BY <2>1, <2>4, <3>2, <3>4, <3>5 DEF Turns
  <2>5. CASE conn = "open" /\ Vanishes
    <3>1. UNCHANGED <<toEngine, toClient>> /\ engine.phase # "gone" /\ engine'.phase = "gone"
      BY <2>5 DEF Vanishes
    <3>2. OnePlace' /\ (dispatching => Silent')
      BY <1>2, <2>1, <2>5, <3>1 DEF OnePlace, Silent
    <3>3. Due'
      BY <1>2, <2>1, <2>5, <3>1 DEF Due, Owes, Silent
    <3> QED
      BY <2>1, <2>5, <3>2, <3>3 DEF Turns
  <2> QED
    BY <1>9, <2>2, <2>3, <2>4, <2>5
<1> QED
  BY <1>3, <1>4, <1>5, <1>6, <1>7, <1>8, <1>9, StepKinds


(* With a user who waits for results, request and reply take turns. *)
THEOREM TakingTurns ==
  ASSUME Patient
  PROVE  Spec => []Turns
<1>1. Init => Turns
  BY DEF Init, ClientInit, NewClientState, Turns
<1>2. IInv /\ Turns /\ [Next]_vars => Turns'
  BY TurnsKept
<1> QED
  BY <1>1, <1>2, Invariance, PTL DEF Spec

(* One place at most is a length of one at most, and silence none.         *)
LEMMA PlacesCounted ==
  ASSUME IInv, OnePlace
  PROVE  Len(Tids) <= 1 /\ (Silent => Len(Tids) = 0)
<1> DEFINE a == Picked(toClient)
           b == Running
           c == Picked(toEngine)
           d == Unwritten
<1>1. Stream(toClient) /\ Stream(toEngine) /\ engine.run_tid \in Nat
      /\ cs.command \in Commands \cup {NULL}
  BY EngineFields, FieldTypes DEF Stream, IInv, TypeOK, ClientTypeOK
<1>2. /\ a \in Seq(Nat) /\ Len(a) = Len(toClient)
      /\ c \in Seq(Nat) /\ Len(c) = Len(toEngine)
  BY <1>1, PickedTids
<1>3. cs.command # NULL => cs.command.tid \in Nat
  BY <1>1 DEF Commands
<1>4. /\ b \in Seq(Nat) /\ Len(b) = IF engine.phase = "running" THEN 1 ELSE 0
      /\ d \in Seq(Nat) /\ Len(d) = IF cs.command # NULL THEN 1 ELSE 0
  BY <1>1, <1>3 DEF Running, Unwritten
<1>5. /\ toClient # << >> <=> Len(toClient) # 0
      /\ toEngine # << >> <=> Len(toEngine) # 0
      /\ Len(toClient) \in Nat /\ Len(toEngine) \in Nat
  BY <1>1 DEF Stream
<1>6. Tids = a \o b \o c \o d
  BY Zenon DEF Tids, Picked, Running, Unwritten
<1> HIDE DEF a, b, c, d
<1>7. Len(Tids) = Len(a) + Len(b) + Len(c) + Len(d)
  <2>1. \A s, t \in Seq(Nat) : s \o t \in Seq(Nat) /\ Len(s \o t) = Len(s) + Len(t)
    OBVIOUS
  <2>2. /\ a \o b \in Seq(Nat) /\ Len(a \o b) = Len(a) + Len(b)
        /\ (a \o b) \o c \in Seq(Nat) /\ Len((a \o b) \o c) = Len(a \o b) + Len(c)
        /\ Len(((a \o b) \o c) \o d) = Len((a \o b) \o c) + Len(d)
    BY <1>2, <1>4, <2>1, Zenon
  <2> QED
    BY <1>6, <2>2
<1>8. Silent => Len(Tids) = 0
  BY <1>2, <1>4, <1>5, <1>7 DEF Silent
<1>9. Len(a) <= 1 /\ Len(c) <= 1
  <2>1. Len(toClient) <= 1 /\ Len(toEngine) <= 1
    BY Zenon DEF OnePlace
  <2> QED
    BY <1>2, <2>1
<1>10. /\ Len(a) # 0 => Len(b) = 0 /\ Len(c) = 0 /\ Len(d) = 0
       /\ Len(c) # 0 => Len(b) = 0 /\ Len(d) = 0
       /\ Len(b) # 0 => Len(d) = 0
  <2>1. /\ toClient # << >> =>
              toEngine = << >> /\ engine.phase # "running" /\ cs.command = NULL
        /\ toEngine # << >> => engine.phase # "running" /\ cs.command = NULL
        /\ engine.phase = "running" => cs.command = NULL
    BY Zenon DEF OnePlace
  <2> QED
    BY <1>2, <1>4, <1>5, <2>1
<1>11. /\ Len(a) \in Nat /\ Len(b) \in Nat /\ Len(c) \in Nat /\ Len(d) \in Nat
       /\ Len(b) <= 1 /\ Len(d) <= 1
  BY <1>2, <1>4
<1>12. Len(Tids) <= 1
  BY <1>7, <1>9, <1>10, <1>11
<1> QED
  BY <1>8, <1>12

(* With a user who waits for results, at most one command or answer is     *)
(* under way, and none while a document is processed: the matching of      *)
(* answers to list items by order alone relies on it.                      *)
THEOREM OneAtATime ==
  ASSUME Patient
  PROVE  Spec => []LockStep
<1>1. IInv /\ Turns => LockStep
  BY PlacesCounted DEF Turns, LockStep
<1> QED
  BY <1>1, TakingTurns, Invariance, PTL
-----------------------------------------------------------------------------
(* The refinement. *)

(* A link is open when the connection is, and dead when nothing can come. *)
LEMMA LinkStates ==
  /\ Link = "down" <=> conn # "open"
  /\ Link = "dead" <=> conn = "open" /\ Dead
  /\ Link = "up" <=> conn = "open" /\ ~ Dead
  BY DEF Link

(* Each kind of step is one of RequestReply's, or changes nothing it sees. *)
LEMMA StepsRefine ==
  ASSUME IInv, Turns, Turns', [Next]_vars, Patient
  PROVE  [RR!Next]_(RR!vars)
<1> USE DEF RR!FirstId
<1>1. /\ toEngine \in Seq(Commands) /\ toClient \in Seq(Messages)
      /\ cs.last_tid \in Nat /\ dispatching \in BOOLEAN
  BY FieldTypes DEF IInv, TypeOK, ClientTypeOK
<1>2. ASSUME Link = "up", Link' \in {"up", "dead"},
             cs'.last_tid = cs.last_tid, Answered' = Answered
      PROVE  [RR!Next]_(RR!vars)
  BY <1>2 DEF RR!Next, RR!Die, RR!vars
<1>3. ASSUME Link' = Link, cs'.last_tid = cs.last_tid, Answered' = Answered
      PROVE  [RR!Next]_(RR!vars)
  BY <1>3 DEF RR!vars
<1>4. CASE Goes
  <2>1. /\ conn' = conn /\ cs'.last_tid = cs.last_tid /\ Answered' = Answered
        /\ dispatching /\ conn = "open"
    BY <1>4, AnsweredKept, OnItem DEF Goes, Still
  <2>2. Link = "up" /\ Link' \in {"up", "dead"}
    BY <2>1 DEF Link, Dead
  <2> QED
    BY <1>2, <2>1, <2>2
<1>5. CASE Rests
  <2>1. /\ cs'.last_tid = cs.last_tid /\ Answered' = Answered
        /\ Link' = Link
    BY <1>5, AnsweredKept DEF Rests, Still, SamePlace, Link, Dead
  <2> QED
    BY <1>3, <2>1
<1>6. CASE Asks
  <2>1. Silent /\ Answered = cs.last_tid
    BY <1>6, MayAsk
  <2>2. /\ conn = "open" /\ conn' = "open"
        /\ cs'.last_tid = cs.last_tid + 1 /\ Answered' = Answered
        /\ cs'.command # NULL
        /\ dispatching \/ engine.phase = "break"
    BY <1>6, AnsweredKept, NullAssumption DEF Asks, Settled
  <2>3. Link = "up" /\ Link' = "up"
    BY <2>2 DEF Link, Dead
  <2> QED
    BY <2>1, <2>2, <2>3 DEF RR!Next, RR!Ask
<1>7. CASE Receives
  <2> DEFINE m == Head(toClient)
  <2>1. /\ conn = "open" /\ conn' = "open" /\ toClient # << >>
        /\ cs'.message = m /\ cs'.last_tid = cs.last_tid
    BY <1>7 DEF Receives
  <2>2. m \in Messages /\ m # NULL
    BY <1>1, <2>1, NullAssumption
  <2>3. Link = "up" /\ Link' \in {"up", "dead"}
    BY <2>1 DEF Link, Dead
  <2>4. Answered' = cs.last_tid /\ Answered \in {cs.last_tid, cs.last_tid - 1}
    <3>1. \/ m.kind = "init" /\ Answered = 1 /\ cs.last_tid = 1
          \/ m.kind # "init" /\ m.tid = cs.last_tid /\ Answered + 1 = cs.last_tid
      BY <2>1 DEF Turns, Due, Owes
    <3>2. Answered' = IF m.kind = "init" THEN 1 ELSE m.tid
      BY <2>1, <2>2 DEF Answered
    <3>3. Answered \in Int
      BY <1>1 DEF Answered, IInv, TypeOK, ClientTypeOK, ClientStates, Messages
    <3> QED
      BY <1>1, <3>1, <3>2, <3>3
  <2>5. CASE Answered = cs.last_tid
    BY <1>2, <2>1, <2>3, <2>4, <2>5
  <2>6. CASE Answered # cs.last_tid
    BY <2>1, <2>3, <2>4, <2>6 DEF RR!Next, RR!Answer, RR!Die
  <2> QED
    BY <2>5, <2>6
<1>8. CASE Writes
  <2>1. /\ conn = "open" /\ conn' = "open" /\ cs.command # NULL
        /\ cs'.last_tid = cs.last_tid /\ Answered' = Answered
    BY <1>8, AnsweredKept DEF Writes
  <2>2. Link = "up" /\ Link' \in {"up", "dead"}
    BY <2>1 DEF Link, Dead
  <2> QED
    BY <1>2, <2>1, <2>2
<1>9. CASE Loses
  <2>1. /\ conn = "open" /\ conn' # "open"
        /\ cs'.last_tid = 1 /\ cs'.message = NULL
    BY <1>9 DEF Loses, NewClientState
  <2>2. Link # "down" /\ Link' = "down" /\ Answered' = 1
    BY <2>1 DEF Link, Answered
  <2> QED
    BY <2>1, <2>2 DEF RR!Next, RR!Close
<1>10. CASE Opens
  <2>1. /\ conn # "open" /\ conn' = "open"
        /\ cs'.last_tid = 1 /\ cs'.message = NULL
        /\ toClient' # << >>
    <3>1. \A file \in Files : << Msg("init", 0, file) >> # << >>
      OBVIOUS
    <3> QED
      BY <1>10, <3>1 DEF Opens, NewClientState
  <2>2. Link = "down" /\ Link' = "up" /\ Answered' = 1
    BY <2>1 DEF Link, Dead, Answered
  <2>3. cs.last_tid = 1 /\ Answered = 1
    BY <2>1 DEF Turns, Answered
  <2> QED
    BY <2>1, <2>2, <2>3 DEF RR!Next, RR!Open
<1>11. CASE Handles \/ Halts \/ Vanishes
  <2>1. /\ UNCHANGED <<conn, dispatching, cs>> /\ Answered' = Answered
        /\ engine.phase # "gone"
    BY <1>11, AnsweredKept DEF Handles, Halts, Vanishes, clientVars
  <2>2. (Link = "up" /\ Link' \in {"up", "dead"}) \/ Link' = Link
    BY <2>1 DEF Link, Dead
  <2> QED
    BY <1>2, <1>3, <2>1, <2>2
<1> QED
  BY <1>4, <1>5, <1>6, <1>7, <1>8, <1>9, <1>10, <1>11, StepKinds

(* With a user who waits for results, the session implements RequestReply: *)
(* a command is issued only when the one before has been answered, ids are *)
(* consecutive, and a link that lost an answer stays dead until the next.  *)
THEOREM SessionIsRequestReply ==
  ASSUME Patient
  PROVE  Spec => AlternatesRequests
<1>1. Init => RR!Init
  BY DEF Init, ClientInit, NewClientState, Link, Answered, RR!Init, RR!FirstId
<1>2. IInv /\ Turns /\ Turns' /\ [Next]_vars => [RR!Next]_(RR!vars)
  BY StepsRefine
<1> QED
  BY <1>1, <1>2, TakingTurns, Invariance, PTL DEF Spec, AlternatesRequests, RR!Spec
-----------------------------------------------------------------------------
(***************************************************************************)
(* What the client shows, and where the script is.                         *)
(*                                                                         *)
(* An answer names neither the request nor the widget it is meant for; the *)
(* item it is handed to is all that tells what it is.  The proofs follow   *)
(* the lists item by item: which item stands where, what each one changes, *)
(* and what must be true at every place of every list.                     *)
(***************************************************************************)

(***************************************************************************)
(* The places of the items.                                                *)
(***************************************************************************)
At(list, places) == cs.server_state = list /\ cs.action_list_ptr \in places

From(list, first) == cs.server_state = list /\ cs.action_list_ptr >= first

InList == cs.server_state # "INPUT"

(* In the list that opens a session, *)
LEMMA InitialPlaces ==
  \A p \in DOMAIN initial_action_list :
     LET func  == initial_action_list[p].func
         param == initial_action_list[p].param
     IN  /\ p \in 1 .. 23
         /\ func = "process_mark_buttons_inactive" => p = 1
         /\ func = "do_source_get" => p \in {2, 8}
         /\ func = "process_add_source_file" => p \in {3, 9}
         /\ func = "do_step_into" => p = 4
         /\ func = "do_stack_get" => p \in {5, 10}
         /\ func = "process_update_stack" => p = 6
         /\ func = "process_select_file_line_for_stack_0" => p = 7 /\ param = 4
         /\ func = "process_select_file_line_for_stack_0_no_check" => p = 11
         /\ func = "do_context_get" => p = 12
         /\ func = "process_update_context_vars_for_selected_stack" => p = 13
         /\ func = "process_jump" => p = 14 /\ Jump(param) = 4
         /\ func = "do_set_error_breakpoint" => p \in 15 .. 18 /\ param = p - 14
         /\ func = "do_set_feature" =>
               p \in 19 .. 21 /\ param = (IF p = 19 THEN 1 ELSE IF p = 20 THEN 3 ELSE 2)
         /\ func = "process_mark_buttons_active" => p = 22
         /\ func = "NULL" => p = 23
         /\ func \notin { "do_run", "process_fetched_property",
                          "process_select_file_line_for_selected_stack",
                          "process_select_file_line_for_selected_stack_no_check" }
  BY DEF initial_action_list, Item, Jump

(* in the list run at a stop, *)
LEMMA BreakPlaces ==
  \A p \in DOMAIN break_action_list :
     LET func  == break_action_list[p].func
         param == break_action_list[p].param
     IN  /\ p \in 1 .. 12
         /\ func = "process_mark_buttons_inactive" => p = 1
         /\ func = "do_stack_get" => p \in {2, 7}
         /\ func = "process_update_stack" => p = 3
         /\ func = "process_select_file_line_for_stack_0" => p = 4 /\ param = 4
         /\ func = "do_source_get" => p = 5
         /\ func = "process_add_source_file" => p = 6
         /\ func = "process_select_file_line_for_stack_0_no_check" => p = 8
         /\ func = "do_context_get" => p = 9
         /\ func = "process_update_context_vars_for_selected_stack" => p = 10
         /\ func = "process_mark_buttons_active" => p = 11
         /\ func = "NULL" => p = 12
         /\ func \notin { "do_run", "do_step_into", "do_set_error_breakpoint",
                          "do_set_feature", "process_fetched_property", "process_jump",
                          "process_select_file_line_for_selected_stack",
                          "process_select_file_line_for_selected_stack_no_check" }
  BY DEF break_action_list, Item

(* in the list run when a script has ended, *)
LEMMA StoppedPlaces ==
  \A p \in DOMAIN stopped_action_list :
     LET func == stopped_action_list[p].func
     IN  /\ p \in 1 .. 3
         /\ func = "process_mark_buttons_inactive" => p = 1
         /\ func = "do_run" => p = 2
         /\ func = "NULL" => p = 3
         /\ func \in {"process_mark_buttons_inactive", "do_run", "NULL"}
  BY DEF stopped_action_list, Item

(* in the list run when a frame is selected, *)
LEMMA SelectPlaces ==
  \A p \in DOMAIN select_stack_action_list :
     LET func  == select_stack_action_list[p].func
         param == select_stack_action_list[p].param
     IN  /\ p \in 1 .. 10
         /\ func = "process_mark_buttons_inactive" => p = 1
         /\ func = "process_select_file_line_for_selected_stack" => p = 2 /\ param = 4
         /\ func = "do_source_get" => p = 3
         /\ func = "process_add_source_file" => p = 4
         /\ func = "do_stack_get" => p = 5
         /\ func = "process_select_file_line_for_selected_stack_no_check" => p = 6
         /\ func = "do_context_get" => p = 7
         /\ func = "process_update_context_vars_for_selected_stack" => p = 8
         /\ func = "process_mark_buttons_active" => p = 9
         /\ func = "NULL" => p = 10
         /\ func \notin { "do_run", "do_step_into", "do_set_error_breakpoint",
                          "do_set_feature", "process_fetched_property", "process_jump",
                          "process_update_stack",
                          "process_select_file_line_for_stack_0",
                          "process_select_file_line_for_stack_0_no_check" }
  BY DEF select_stack_action_list, Item

(* and in the list that fetches a property. *)
LEMMA FetchPlaces ==
  \A p \in DOMAIN fetch_property_action_list :
     LET func == fetch_property_action_list[p].func
     IN  /\ p \in 1 .. 4
         /\ func = "process_mark_buttons_inactive" => p = 1
         /\ func = "process_fetched_property" => p = 2
         /\ func = "process_mark_buttons_active" => p = 3
         /\ func = "NULL" => p = 4
         /\ func \in { "process_mark_buttons_inactive", "process_fetched_property",
                       "process_mark_buttons_active", "NULL" }
  BY DEF fetch_property_action_list, Item

(* Hence where each item stands. *)
LEMMA Where ==
  ASSUME IInv, dispatching
  PROVE  LET func  == CurrentItem.func
             param == CurrentItem.param
             p     == cs.action_list_ptr
         IN  /\ func = "process_mark_buttons_inactive" => p = 1
             /\ func = "process_mark_buttons_active" =>
                   \/ At("INITIAL", {22}) \/ At("BREAK", {11})
                   \/ At("SELECT_STACK", {9}) \/ At("FETCH_PROPERTY", {3})
             /\ func = "do_source_get" =>
                   At("INITIAL", {2, 8}) \/ At("BREAK", {5}) \/ At("SELECT_STACK", {3})
             /\ func = "process_add_source_file" =>
                   At("INITIAL", {3, 9}) \/ At("BREAK", {6}) \/ At("SELECT_STACK", {4})
             /\ func = "do_step_into" => At("INITIAL", {4})
             /\ func = "do_run" => At("STOPPED", {2})
             /\ func = "do_stack_get" =>
                   At("INITIAL", {5, 10}) \/ At("BREAK", {2, 7}) \/ At("SELECT_STACK", {5})
             /\ func = "process_update_stack" => At("INITIAL", {6}) \/ At("BREAK", {3})
             /\ func = "process_select_file_line_for_stack_0" =>
                   (At("INITIAL", {7}) \/ At("BREAK", {4})) /\ param = 4
             /\ func = "process_select_file_line_for_stack_0_no_check" =>
                   At("INITIAL", {11}) \/ At("BREAK", {8})
             /\ func = "process_select_file_line_for_selected_stack" =>
                   At("SELECT_STACK", {2}) /\ param = 4
             /\ func = "process_select_file_line_for_selected_stack_no_check" =>
                   At("SELECT_STACK", {6})
             /\ func = "do_context_get" =>
                   At("INITIAL", {12}) \/ At("BREAK", {9}) \/ At("SELECT_STACK", {7})
             /\ func = "process_update_context_vars_for_selected_stack" =>
                   At("INITIAL", {13}) \/ At("BREAK", {10}) \/ At("SELECT_STACK", {8})
             /\ func = "process_jump" => At("INITIAL", {14}) /\ Jump(param) = 4
             /\ func = "do_set_error_breakpoint" =>
                   At("INITIAL", 15 .. 18) /\ param = p - 14
             /\ func = "do_set_feature" =>
                   /\ At("INITIAL", 19 .. 21)
                   /\ param = (IF p = 19 THEN 1 ELSE IF p = 20 THEN 3 ELSE 2)
             /\ func = "process_fetched_property" => At("FETCH_PROPERTY", {2})
             /\ func = "NULL" =>
                   \/ At("INITIAL", {23}) \/ At("BREAK", {12}) \/ At("STOPPED", {3})
                   \/ At("SELECT_STACK", {10}) \/ At("FETCH_PROPERTY", {4})
<1>1. /\ cs.server_state \in ListNames
      /\ cs.action_list_ptr \in DOMAIN ActionList(cs.server_state)
      /\ CurrentItem = ActionList(cs.server_state)[cs.action_list_ptr]
  BY OnItem
<1>2. CASE cs.server_state = "INITIAL"
  BY <1>1, <1>2, InitialPlaces DEF ActionList, At
<1>3. CASE cs.server_state = "BREAK"
  BY <1>1, <1>3, BreakPlaces DEF ActionList, At
<1>4. CASE cs.server_state = "STOPPED"
  BY <1>1, <1>4, StoppedPlaces DEF ActionList, At
<1>5. CASE cs.server_state = "SELECT_STACK"
  BY <1>1, <1>5, SelectPlaces DEF ActionList, At
<1>6. CASE cs.server_state = "FETCH_PROPERTY"
  BY <1>1, <1>6, FetchPlaces DEF ActionList, At
<1> QED
  BY <1>1, <1>2, <1>3, <1>4, <1>5, <1>6 DEF ListNames
-----------------------------------------------------------------------------
(***************************************************************************)
(* What each step changes, of the fields that say what is shown or wanted. *)
(***************************************************************************)

(* The fields of a ClientState besides the list, the command, the document *)
(* and the state of the buttons.                                           *)
SameNotes(c, d) ==
    /\ d.last_source_file = c.last_source_file
    /\ d.last_selected_stack_frame = c.last_selected_stack_frame
    /\ d.nr_of_stack_frames = c.nr_of_stack_frames
    /\ d.path_string = c.path_string
    /\ d.last_iter = c.last_iter

(* The loop changes none of them, *)
LEMMA ReturnsNotes ==
  ASSUME NEW c \in ClientStates, NEW v, Returns(v, c)
  PROVE  SameNotes(c, cs')
<1> DEFINE out == c.out \/ (v # NON_INTERACTIVE /\ c.command # NULL)
<1>1. cs' = [c EXCEPT !.action_list_ptr = @ + 1, !.out = out]
  BY Zenon DEF Returns
<1> HIDE DEF out
<1> QED
  BY <1>1 DEF ClientStates, SameNotes

(* nor does a command that is issued, *)
LEMMA WithCommandNotes ==
  ASSUME NEW c \in ClientStates, NEW verb, NEW arg
  PROVE  SameNotes(c, WithCommand(c, verb, arg))
  BY DEF WithCommand, ClientStates, SameNotes

(* from a callback either, *)
LEMMA RequestsNotes ==
  ASSUME NEW c \in ClientStates, NEW verb, NEW arg
  PROVE  SameNotes(c, Requests(c, verb, arg))
  BY DEF Requests, WithCommand, ClientStates, SameNotes

(* nor a list that is chosen. *)
LEMMA WithListNotes ==
  ASSUME NEW c \in ClientStates, NEW list
  PROVE  SameNotes(c, WithList(c, list)) /\ WithList(c, list).message = c.message
  BY DEF WithList, ClientStates, SameNotes

(* The verb whose answer the place waits for or works on: what the last    *)
(* item before it that issues a command has asked.                         *)
Awaited ==
    CASE At("INITIAL", {3, 9}) \/ At("BREAK", {6}) \/ At("SELECT_STACK", {4})
            -> "source"
      [] At("INITIAL", {6, 7, 11}) \/ At("BREAK", {3, 4, 8}) \/ At("SELECT_STACK", {1, 2, 6})
            -> "stack_get"
      [] At("INITIAL", {13}) \/ At("BREAK", {10}) \/ At("SELECT_STACK", {8})
            -> "context_get"
      [] At("FETCH_PROPERTY", {1, 2}) -> "property_get"
      [] At("INITIAL", {5})           -> "step_into"
      [] At("STOPPED", {3})           -> "run"
      [] At("INITIAL", 16 .. 19)      -> "breakpoint_set"
      [] At("INITIAL", 20 .. 22)      -> "feature_set"
      [] OTHER                        -> "none"

(* A command under way is the one the place stands for. *)
Asking(c) ==
    /\ InList => c.verb = Awaited
    /\ ~ InList => c.verb \in ButtonVerbs
    /\ c.verb = "source" => c.arg = cs.last_source_file
    /\ c.verb = "context_get" => c.arg = cs.last_selected_stack_frame
    /\ c.verb = "property_get" => c.arg = cs.path_string
    /\ c.verb = "breakpoint_set" => c.arg = cs.action_list_ptr - 15
    /\ c.verb = "feature_set" =>
          c.arg = (IF cs.action_list_ptr = 20 THEN 1
                   ELSE IF cs.action_list_ptr = 21 THEN 3 ELSE 2)

ItemStep ==
    /\ dispatching
    /\ UNCHANGED <<conn, fault, toEngine, toClient, engine, accepts>>
    /\ cs' \in ClientStates /\ ui' \in Widgets
    /\ cs'.message = cs.message

GoesOn ==
    /\ ItemStep /\ dispatching'
    /\ cs'.server_state = cs.server_state
    /\ cs'.command = cs.command

Issued ==
    /\ ItemStep /\ ~ dispatching'
    /\ \/ At("INITIAL", {2, 4, 5, 8, 10, 12} \cup 15 .. 21)
       \/ At("BREAK", {2, 5, 7, 9}) \/ At("STOPPED", {2}) \/ At("SELECT_STACK", {3, 5, 7})
    /\ cs'.server_state = cs.server_state
    /\ cs'.action_list_ptr = cs.action_list_ptr + 1
    /\ SameNotes(cs, cs') /\ ui' = ui
    /\ cs'.command # NULL /\ Asking(cs.command)'

Quiet ==
    /\ GoesOn
    /\ \/ cs.action_list_ptr = 1 /\ cs'.action_list_ptr = 2
       \/ /\ \/ At("INITIAL", {22}) \/ At("BREAK", {11})
             \/ At("SELECT_STACK", {9}) \/ At("FETCH_PROPERTY", {3})
          /\ cs'.action_list_ptr = cs.action_list_ptr + 1
       \/ At("INITIAL", {14}) /\ cs'.action_list_ptr \in {15, 19}
    /\ SameNotes(cs, cs') /\ ui' = ui

Added ==
    /\ GoesOn
    /\ At("INITIAL", {3, 9}) \/ At("BREAK", {6}) \/ At("SELECT_STACK", {4})
    /\ cs'.action_list_ptr = cs.action_list_ptr + 1
    /\ cs.message.kind = "source" /\ cs.last_source_file # NULL
    /\ SameNotes([cs EXCEPT !.last_source_file = NULL], cs')
    /\ ui' = add_source_file(cs.last_source_file, cs.message.data)

Hung ==
    /\ GoesOn
    /\ At("FETCH_PROPERTY", {2}) /\ cs'.action_list_ptr = 3
    /\ SameNotes([cs EXCEPT !.path_string = NULL], cs')
    /\ ui' = [ui EXCEPT !.vars = add_fetched(@, cs.message, cs.path_string)]

Listed ==
    /\ GoesOn
    /\ At("INITIAL", {6}) \/ At("BREAK", {3})
    /\ cs'.action_list_ptr = cs.action_list_ptr + 1
    /\ SameNotes(ShowsFrames(cs, Frames(cs.message)), cs')
    /\ ui' = [ui EXCEPT !.stack = IF Frames(cs.message) = << >>
                                  THEN NoStack ELSE cs.message.data]

Inspected ==
    /\ GoesOn
    /\ At("INITIAL", {13}) \/ At("BREAK", {10}) \/ At("SELECT_STACK", {8})
    /\ cs'.action_list_ptr = cs.action_list_ptr + 1
    /\ SameNotes(cs, cs')
    /\ ui' = [ui EXCEPT !.vars = VarView(cs.message)]

(* The selecting items: with the page of the file there, it comes to the   *)
(* front; without it the file is noted to be fetched.                      *)
Turned(frame, checks, arrows) ==
    LET file == Frames(cs.message)[frame]
    IN  IF frame \in DOMAIN Frames(cs.message) /\ HasTab(file)
        THEN /\ cs'.action_list_ptr = cs.action_list_ptr + 1 + (IF checks THEN 4 ELSE 0)
             /\ cs'.last_source_file = cs.last_source_file
             /\ ui'.current = file /\ ui'.arrows = arrows
        ELSE /\ cs'.action_list_ptr = cs.action_list_ptr + 1
             /\ cs'.last_source_file = IF frame \in DOMAIN Frames(cs.message)
                                       THEN file ELSE cs.last_source_file
             /\ ui' = ui

Turning ==
    /\ ItemStep /\ dispatching' \in BOOLEAN
    /\ cs'.server_state = cs.server_state
    /\ cs'.command = cs.command
    /\ cs'.last_selected_stack_frame = cs.last_selected_stack_frame
    /\ cs'.nr_of_stack_frames = cs.nr_of_stack_frames
    /\ cs'.path_string = cs.path_string
    /\ ui'.tabs = ui.tabs /\ ui'.stack = ui.stack /\ ui'.vars = ui.vars

Arrow(m) == [file |-> Frames(m)[1], stop |-> m.data.stop]

TurnedToInnermost ==
    /\ Turning
    /\ At("INITIAL", {7, 11}) \/ At("BREAK", {4, 8})
    /\ Turned(1, At("INITIAL", {7}) \/ At("BREAK", {4}),
              MovedArrow(ui.arrows, cs.last_iter, Arrow(cs.message)))
    /\ cs'.last_iter = IF 1 \in DOMAIN Frames(cs.message) /\ HasTab(Frames(cs.message)[1])
                       THEN Arrow(cs.message) ELSE cs.last_iter

TurnedToSelected ==
    /\ Turning
    /\ At("SELECT_STACK", {2, 6})
    /\ Turned(cs.last_selected_stack_frame + 1, At("SELECT_STACK", {2}), ui.arrows)
    /\ cs'.last_iter = cs.last_iter

Ended ==
    /\ ItemStep /\ ~ dispatching'
    /\ \/ At("INITIAL", {23}) \/ At("BREAK", {12}) \/ At("STOPPED", {3})
       \/ At("SELECT_STACK", {10}) \/ At("FETCH_PROPERTY", {4})
    /\ cs'.server_state = "INPUT"
    /\ cs'.command = cs.command
    /\ SameNotes(cs, cs') /\ ui' = ui

(* The rest: a process that dies, and a step of nobody. *)
Idle == UNCHANGED <<conn, dispatching, cs, ui, toEngine, toClient, engine, accepts>>
-----------------------------------------------------------------------------
(* The items. *)

(* What every item leaves alone, and that it leaves types. *)
LEMMA ItemKeeps ==
  ASSUME IInv, Dispatches
  PROVE  /\ cs \in ClientStates /\ ui \in Widgets
         /\ cs' \in ClientStates /\ ui' \in Widgets
         /\ UNCHANGED <<engine, accepts>>
<1>1. IInv'
  BY DispatchesKeep
<1> QED
  BY <1>1 DEF IInv, TypeOK, ClientTypeOK, Dispatches, userVars

(* A command that an item issues is the one its next place stands for.     *)
LEMMA IssuesEffect ==
  ASSUME IInv, Dispatches, dispatching, NEW verb, NEW arg,
         \A t \in Nat : Cmd(verb, t, arg) \in Commands,
         Issues(verb, arg),
         \/ verb = "source" /\ CurrentItem.func = "do_source_get"
            /\ arg = cs.last_source_file
         \/ verb = "stack_get" /\ CurrentItem.func = "do_stack_get"
         \/ verb = "context_get" /\ CurrentItem.func = "do_context_get"
            /\ arg = cs.last_selected_stack_frame
         \/ verb = "step_into" /\ CurrentItem.func = "do_step_into"
         \/ verb = "run" /\ CurrentItem.func = "do_run"
         \/ verb = "breakpoint_set" /\ CurrentItem.func = "do_set_error_breakpoint"
            /\ arg = CurrentItem.param
         \/ verb = "feature_set" /\ CurrentItem.func = "do_set_feature"
            /\ arg = CurrentItem.param
  PROVE  Issued
<1> DEFINE c == WithCommand(cs, verb, arg)
           p == cs.action_list_ptr
<1>1. /\ cs \in ClientStates /\ cs' \in ClientStates /\ ui' \in Widgets
      /\ UNCHANGED <<engine, accepts>> /\ p \in Nat
  BY ItemKeeps, FieldTypes
<1>2. /\ c.command = Cmd(verb, cs.last_tid + 1, arg)
      /\ c.server_state = cs.server_state
      /\ c.action_list_ptr = p
      /\ c.message = cs.message
      /\ SameNotes(cs, c)
      /\ c \in ClientStates
  BY <1>1, WithCommandTyped, WithCommandFields, WithCommandNotes
<1>3. /\ Returns(INTERACTIVE, c) /\ UNCHANGED <<conn, fault, ui, wires>>
      /\ INTERACTIVE # NON_INTERACTIVE
  BY DEF Issues, INTERACTIVE, NON_INTERACTIVE
<1> HIDE DEF c
<1>4. /\ cs'.command = c.command /\ ~ dispatching'
      /\ cs'.action_list_ptr = p + 1
      /\ cs'.server_state = cs.server_state
      /\ cs'.message = cs.message
      /\ SameNotes(c, cs')
  BY <1>2, <1>3, ReturnsTyped, ReturnsNotes
<1>5. SameNotes(cs, cs')
  BY <1>2, <1>4 DEF SameNotes
<1>6. cs'.command # NULL /\ cs'.command.verb = verb /\ cs'.command.arg = arg
  <2>1. cs.last_tid + 1 \in Nat
    BY <1>1, FieldTypes
  <2>2. Cmd(verb, cs.last_tid + 1, arg) \in Commands
    BY <2>1
  <2> QED
    BY <1>2, <1>4, <2>2, NullAssumption DEF Cmd
<1>7. /\ \/ At("INITIAL", {2, 4, 5, 8, 10, 12} \cup 15 .. 21)
         \/ At("BREAK", {2, 5, 7, 9}) \/ At("STOPPED", {2}) \/ At("SELECT_STACK", {3, 5, 7})
      /\ Asking(cs.command)'
  <2>1. CASE verb = "source"
    <3>1. At("INITIAL", {2, 8}) \/ At("BREAK", {5}) \/ At("SELECT_STACK", {3})
      BY <2>1, Where
    <3> QED
      BY <1>1, <1>4, <1>5, <1>6, <2>1, <3>1 DEF At, Asking, Awaited, InList, SameNotes
  <2>2. CASE verb = "stack_get"
    <3>1. At("INITIAL", {5, 10}) \/ At("BREAK", {2, 7}) \/ At("SELECT_STACK", {5})
      BY <2>2, Where
    <3> QED
      BY <1>1, <1>4, <1>5, <1>6, <2>2, <3>1 DEF At, Asking, Awaited, InList, SameNotes
  <2>3. CASE verb = "context_get"
    <3>1. At("INITIAL", {12}) \/ At("BREAK", {9}) \/ At("SELECT_STACK", {7})
      BY <2>3, Where
    <3> QED
      BY <1>1, <1>4, <1>5, <1>6, <2>3, <3>1 DEF At, Asking, Awaited, InList, SameNotes
  <2>4. CASE verb = "step_into" \/ verb = "run"
    <3>1. IF verb = "step_into" THEN At("INITIAL", {4}) ELSE At("STOPPED", {2})
      BY <2>4, Where
    <3> QED
      BY <1>1, <1>4, <1>5, <1>6, <2>4, <3>1 DEF At, Asking, Awaited, InList, SameNotes
  <2>5. CASE verb = "breakpoint_set"
    <3>1. At("INITIAL", 15 .. 18) /\ arg = p - 14
      BY <2>5, Where
    <3> QED
      BY <1>1, <1>4, <1>5, <1>6, <2>5, <3>1 DEF At, Asking, Awaited, InList, SameNotes
  <2>6. CASE verb = "feature_set"
    <3>1. /\ At("INITIAL", 19 .. 21)
          /\ arg = (IF p = 19 THEN 1 ELSE IF p = 20 THEN 3 ELSE 2)
      BY <2>6, Where
    <3> QED
      BY <1>1, <1>4, <1>5, <1>6, <2>6, <3>1 DEF At, Asking, Awaited, InList, SameNotes
  <2> QED
    BY <2>1, <2>2, <2>3, <2>4, <2>5, <2>6
<1> QED
  BY <1>1, <1>3, <1>4, <1>5, <1>6, <1>7 DEF Issued, ItemStep, wires

(* The seven items that issue a command. *)
LEMMA IssuingItems ==
  ASSUME IInv, Dispatches,
         \/ do_context_get \/ do_run \/ do_set_error_breakpoint \/ do_set_feature
         \/ do_source_get \/ do_stack_get \/ do_step_into
  PROVE  Issued
<1>1. \A t \in Nat : /\ \A f \in Files \cup {NULL} : Cmd("source", t, f) \in Commands
                     /\ \A i \in Int : Cmd("context_get", t, i) \in Commands
                     /\ \A n \in Nat : Cmd("breakpoint_set", t, n) \in Commands
                     /\ \A n \in Nat : Cmd("feature_set", t, n) \in Commands
                     /\ Cmd("run", t, NULL) \in Commands
                     /\ Cmd("step_into", t, NULL) \in Commands
                     /\ Cmd("stack_get", t, NULL) \in Commands
  BY CommandTyped DEF ButtonVerbs, ContinueVerbs
<1>2. dispatching => /\ cs.last_source_file \in Files \cup {NULL}
                     /\ cs.last_selected_stack_frame \in Int
                     /\ CurrentItem.param \in Nat
  BY OnItem, FieldTypes DEF GoodItem
<1>3. CASE do_context_get
  BY <1>1, <1>2, <1>3, IssuesEffect DEF do_context_get, Runs
<1>4. CASE do_run
  BY <1>1, <1>4, IssuesEffect DEF do_run, Runs
<1>5. CASE do_set_error_breakpoint
  BY <1>1, <1>2, <1>5, IssuesEffect DEF do_set_error_breakpoint, Runs
<1>6. CASE do_set_feature
  BY <1>1, <1>2, <1>6, IssuesEffect DEF do_set_feature, Runs
<1>7. CASE do_source_get
  BY <1>1, <1>2, <1>7, IssuesEffect DEF do_source_get, Runs, WantedSource
<1>8. CASE do_stack_get
  BY <1>1, <1>8, IssuesEffect DEF do_stack_get, Runs
<1>9. CASE do_step_into
  BY <1>1, <1>9, IssuesEffect DEF do_step_into, Runs
<1> QED
  BY <1>3, <1>4, <1>5, <1>6, <1>7, <1>8, <1>9

(* An item that leaves c behind. *)
LEMMA LeavesBehind ==
  ASSUME IInv, Dispatches, dispatching, UNCHANGED <<conn, fault, wires>>,
         NEW c \in ClientStates, NEW v, Returns(v, c),
         c.server_state = cs.server_state, c.command = cs.command,
         c.message = cs.message
  PROVE  /\ ItemStep /\ dispatching' = (v = NON_INTERACTIVE)
         /\ v = NON_INTERACTIVE => GoesOn
         /\ cs'.server_state = cs.server_state
         /\ cs'.command = cs.command
         /\ cs'.action_list_ptr = c.action_list_ptr + 1
         /\ SameNotes(c, cs')
<1>1. /\ cs' \in ClientStates /\ ui' \in Widgets /\ UNCHANGED <<engine, accepts>>
  BY ItemKeeps
<1>2. /\ dispatching' = (v = NON_INTERACTIVE)
      /\ cs'.action_list_ptr = c.action_list_ptr + 1
      /\ cs'.command = c.command
      /\ cs'.server_state = c.server_state
      /\ cs'.message = c.message
      /\ SameNotes(c, cs')
  BY ReturnsTyped, ReturnsNotes
<1> QED
  BY <1>1, <1>2 DEF ItemStep, GoesOn, wires

(* Marking the buttons. *)
LEMMA MarkEffect ==
  ASSUME IInv, Dispatches, process_mark_buttons_active \/ process_mark_buttons_inactive
  PROVE  Quiet
<1>1. PICK b \in BOOLEAN : Returns(NON_INTERACTIVE, [cs EXCEPT !.buttons_active = b])
  BY Zenon DEF process_mark_buttons_active, process_mark_buttons_inactive
<1>2. dispatching /\ UNCHANGED <<conn, fault, ui, wires>>
  BY DEF process_mark_buttons_active, process_mark_buttons_inactive, Runs
<1> DEFINE c == [cs EXCEPT !.buttons_active = b]
<1>3. cs \in ClientStates /\ cs.action_list_ptr \in Nat
  BY ItemKeeps, FieldTypes
<1>4. c \in ClientStates
  BY <1>3, Zenon DEF ClientStates
<1>5. /\ c.server_state = cs.server_state /\ c.command = cs.command
      /\ c.message = cs.message /\ c.action_list_ptr = cs.action_list_ptr
      /\ SameNotes(cs, c)
  BY <1>3 DEF ClientStates, SameNotes
<1>6. Returns(NON_INTERACTIVE, c)
  BY <1>1
<1> HIDE DEF c
<1>7. GoesOn /\ cs'.action_list_ptr = cs.action_list_ptr + 1 /\ SameNotes(c, cs')
  BY <1>2, <1>4, <1>5, <1>6, LeavesBehind
<1>8. SameNotes(cs, cs')
  BY <1>5, <1>7 DEF SameNotes
<1>9. \/ cs.action_list_ptr = 1
      \/ \/ At("INITIAL", {22}) \/ At("BREAK", {11})
         \/ At("SELECT_STACK", {9}) \/ At("FETCH_PROPERTY", {3})
  BY <1>2, Where DEF process_mark_buttons_active, process_mark_buttons_inactive, Runs
<1> QED
  BY <1>2, <1>3, <1>7, <1>8, <1>9 DEF Quiet

(* The jump over the error breakpoints. *)
LEMMA JumpEffect ==
  ASSUME IInv, Dispatches, process_jump
  PROVE  Quiet
<1>1. PICK q \in {0, Jump(CurrentItem.param)} :
         Returns(NON_INTERACTIVE, [cs EXCEPT !.action_list_ptr = @ + q])
  BY Zenon DEF process_jump
<1>2. dispatching /\ UNCHANGED <<conn, fault, ui, wires>>
  BY DEF process_jump, Runs
<1> DEFINE c == [cs EXCEPT !.action_list_ptr = @ + q]
<1>3. cs \in ClientStates /\ cs.action_list_ptr \in Nat
  BY ItemKeeps, FieldTypes
<1>4. At("INITIAL", {14}) /\ q \in {0, 4}
  BY <1>2, Where DEF process_jump, Runs
<1>5. cs.action_list_ptr + q \in Nat
  BY <1>3, <1>4
<1>6. c \in ClientStates
  BY <1>3, <1>5, Zenon DEF ClientStates
<1>7. /\ c.server_state = cs.server_state /\ c.command = cs.command
      /\ c.message = cs.message /\ c.action_list_ptr = cs.action_list_ptr + q
      /\ SameNotes(cs, c)
  BY <1>3 DEF ClientStates, SameNotes
<1>8. Returns(NON_INTERACTIVE, c)
  BY <1>1
<1> HIDE DEF c
<1>9. GoesOn /\ cs'.action_list_ptr = cs.action_list_ptr + q + 1 /\ SameNotes(c, cs')
  BY <1>2, <1>6, <1>7, <1>8, LeavesBehind
<1>10. SameNotes(cs, cs')
  BY <1>7, <1>9 DEF SameNotes
<1> QED
  BY <1>2, <1>3, <1>4, <1>9, <1>10 DEF Quiet, At

(* A source arrives. *)
LEMMA AddEffect ==
  ASSUME IInv, Dispatches, process_add_source_file
  PROVE  Added
<1> DEFINE c == [cs EXCEPT !.last_source_file = NULL]
<1>1. /\ dispatching /\ CurrentItem.func = "process_add_source_file"
      /\ cs.message.kind = "source" /\ cs.last_source_file # NULL
      /\ ui' = add_source_file(cs.last_source_file, cs.message.data)
      /\ Returns(NON_INTERACTIVE, c)
      /\ UNCHANGED <<conn, fault, wires>>
  BY DEF process_add_source_file, Runs
<1>2. cs \in ClientStates /\ NULL \in Files \cup {NULL}
  BY ItemKeeps
<1>3. c \in ClientStates
  BY <1>2, Zenon DEF ClientStates
<1>4. /\ c.server_state = cs.server_state /\ c.command = cs.command
      /\ c.message = cs.message /\ c.action_list_ptr = cs.action_list_ptr
  BY <1>2 DEF ClientStates
<1>5. GoesOn /\ cs'.action_list_ptr = cs.action_list_ptr + 1 /\ SameNotes(c, cs')
  <2> HIDE DEF c
  <2> QED
    BY <1>1, <1>3, <1>4, LeavesBehind
<1>6. At("INITIAL", {3, 9}) \/ At("BREAK", {6}) \/ At("SELECT_STACK", {4})
  BY <1>1, Where
<1> QED
  BY <1>1, <1>5, <1>6 DEF Added

(* The children of a variable arrive. *)
LEMMA HangEffect ==
  ASSUME IInv, Dispatches, process_fetched_property
  PROVE  Hung
<1> DEFINE c == [cs EXCEPT !.path_string = NULL]
<1>1. /\ dispatching /\ CurrentItem.func = "process_fetched_property"
      /\ ui' = [ui EXCEPT !.vars = add_fetched(@, cs.message, cs.path_string)]
      /\ Returns(NON_INTERACTIVE, c)
      /\ UNCHANGED <<conn, fault, wires>>
  BY DEF process_fetched_property, Runs
<1>2. cs \in ClientStates /\ NULL \in VarRows \cup {NULL}
  BY ItemKeeps
<1>3. c \in ClientStates
  BY <1>2, Zenon DEF ClientStates
<1>4. /\ c.server_state = cs.server_state /\ c.command = cs.command
      /\ c.message = cs.message /\ c.action_list_ptr = cs.action_list_ptr
  BY <1>2 DEF ClientStates
<1>5. GoesOn /\ cs'.action_list_ptr = cs.action_list_ptr + 1 /\ SameNotes(c, cs')
  <2> HIDE DEF c
  <2> QED
    BY <1>1, <1>3, <1>4, LeavesBehind
<1>6. At("FETCH_PROPERTY", {2})
  BY <1>1, Where
<1>7. cs'.action_list_ptr = 3
  BY <1>5, <1>6 DEF At
<1> QED
  BY <1>1, <1>5, <1>6, <1>7 DEF Hung

(* The stack view is filled. *)
LEMMA ListEffect ==
  ASSUME IInv, Dispatches, process_update_stack
  PROVE  Listed
<1> DEFINE frames == Frames(cs.message)
           c == ShowsFrames(cs, frames)
<1>1. /\ dispatching /\ CurrentItem.func = "process_update_stack"
      /\ ui' = [ui EXCEPT !.stack = IF frames = << >> THEN NoStack ELSE cs.message.data]
      /\ Returns(NON_INTERACTIVE, c)
      /\ UNCHANGED <<conn, fault, wires>>
  BY DEF process_update_stack, Runs
<1>2. cs \in ClientStates /\ cs.message \in Messages
  BY <1>1, OnItem
<1>3. Len(frames) \in Nat /\ 0 \in Int
  BY <1>2, FramesTyped
<1>4. /\ c \in ClientStates
      /\ c.server_state = cs.server_state /\ c.command = cs.command
      /\ c.message = cs.message /\ c.action_list_ptr = cs.action_list_ptr
  <2> HIDE DEF frames
  <2>1. c \in ClientStates
    BY <1>2, <1>3, Zenon DEF ClientStates, ShowsFrames
  <2> QED
    BY <1>2, <2>1 DEF ClientStates, ShowsFrames
<1>5. GoesOn /\ cs'.action_list_ptr = cs.action_list_ptr + 1 /\ SameNotes(c, cs')
  <2> HIDE DEF c
  <2> QED
    BY <1>1, <1>4, LeavesBehind
<1>6. At("INITIAL", {6}) \/ At("BREAK", {3})
  BY <1>1, Where
<1> QED
  BY <1>1, <1>5, <1>6 DEF Listed

(* The variable view is filled. *)
LEMMA InspectEffect ==
  ASSUME IInv, Dispatches, process_update_context_vars_for_selected_stack
  PROVE  Inspected
<1>1. /\ dispatching
      /\ CurrentItem.func = "process_update_context_vars_for_selected_stack"
      /\ ui' = [ui EXCEPT !.vars = VarView(cs.message)]
      /\ Returns(NON_INTERACTIVE, cs)
      /\ UNCHANGED <<conn, fault, wires>>
  BY DEF process_update_context_vars_for_selected_stack, Runs
<1>2. GoesOn /\ cs'.action_list_ptr = cs.action_list_ptr + 1 /\ SameNotes(cs, cs')
  BY <1>1, ItemKeeps, LeavesBehind
<1>3. At("INITIAL", {13}) \/ At("BREAK", {10}) \/ At("SELECT_STACK", {8})
  BY <1>1, Where
<1> QED
  BY <1>1, <1>2, <1>3 DEF Inspected

(* A list is over. *)
LEMMA EndEffect ==
  ASSUME IInv, Dispatches, EndOfList
  PROVE  Ended
<1> DEFINE e == Ends(cs)
           out == cs.out \/ cs.command # NULL
<1>1. /\ dispatching /\ CurrentItem.func = "NULL" /\ dispatching' = FALSE
      /\ cs' = [e EXCEPT !.out = @ \/ cs.command # NULL]
      /\ UNCHANGED <<conn, fault, ui, wires>>
  BY DEF EndOfList, Runs
<1>2. /\ cs \in ClientStates /\ cs' \in ClientStates /\ ui' \in Widgets
      /\ UNCHANGED <<engine, accepts>>
  BY ItemKeeps
<1>3. /\ e \in ClientStates
      /\ e.server_state = "INPUT" /\ e.command = cs.command /\ e.out = cs.out
      /\ e.message = cs.message /\ SameNotes(cs, e)
  BY <1>2 DEF Ends, ClientStates, SameNotes
<1>4. cs' = [e EXCEPT !.out = out]
  BY <1>1, <1>3, Zenon
<1> HIDE DEF e, out
<1>5. /\ cs'.server_state = "INPUT" /\ cs'.command = cs.command
      /\ cs'.message = cs.message /\ SameNotes(e, cs')
  BY <1>2, <1>3, <1>4 DEF ClientStates, SameNotes
<1>6. SameNotes(cs, cs')
  BY <1>3, <1>5 DEF SameNotes
<1>7. \/ At("INITIAL", {23}) \/ At("BREAK", {12}) \/ At("STOPPED", {3})
      \/ At("SELECT_STACK", {10}) \/ At("FETCH_PROPERTY", {4})
  BY <1>1, Where
<1> QED
  BY <1>1, <1>2, <1>5, <1>6, <1>7 DEF Ended, ItemStep, wires

(* What a selecting item leaves behind: d is cs but for the arrow's place. *)
LEMMA AfterSelectFields ==
  ASSUME IInv, dispatching, NEW d \in ClientStates, NEW frame \in Int,
         NEW check \in BOOLEAN, check => CurrentItem.param = 4,
         cs.message \in Messages
  PROVE  LET c    == AfterSelect(d, frame, check)
             file == Frames(cs.message)[frame]
         IN  /\ c \in ClientStates
             /\ c.server_state = d.server_state /\ c.command = d.command
             /\ c.message = d.message
             /\ c.last_selected_stack_frame = d.last_selected_stack_frame
             /\ c.nr_of_stack_frames = d.nr_of_stack_frames
             /\ c.path_string = d.path_string
             /\ c.last_iter = d.last_iter
             /\ IF frame \in DOMAIN Frames(cs.message) /\ HasTab(file)
                THEN /\ c.last_source_file = d.last_source_file
                     /\ c.action_list_ptr = d.action_list_ptr + (IF check THEN 4 ELSE 0)
                ELSE /\ c.action_list_ptr = d.action_list_ptr
                     /\ c.last_source_file = IF frame \in DOMAIN Frames(cs.message)
                                             THEN file ELSE d.last_source_file
<1> DEFINE c    == AfterSelect(d, frame, check)
           file == Frames(cs.message)[frame]
           skip == Skip(check)
<1>1. skip = IF check THEN 4 ELSE 0
  BY DEF Skip
<1>2. Frames(cs.message) \in Seq(Files) /\ d.action_list_ptr \in Nat
  BY FramesTyped, FieldTypes
<1>3. /\ c \in ClientStates
      /\ c.server_state = d.server_state /\ c.command = d.command
      /\ c.message = d.message
      /\ c.last_selected_stack_frame = d.last_selected_stack_frame
      /\ c.nr_of_stack_frames = d.nr_of_stack_frames
      /\ c.path_string = d.path_string
      /\ c.last_iter = d.last_iter
      /\ IF frame \in DOMAIN Frames(cs.message) /\ HasTab(file)
         THEN /\ c.last_source_file = d.last_source_file
              /\ c.action_list_ptr = d.action_list_ptr + (IF check THEN 4 ELSE 0)
         ELSE /\ c.action_list_ptr = d.action_list_ptr
              /\ c.last_source_file = IF frame \in DOMAIN Frames(cs.message)
                                      THEN file ELSE d.last_source_file
  <2>1. CASE frame \notin DOMAIN Frames(cs.message)
    BY <2>1 DEF AfterSelect
  <2>2. CASE frame \in DOMAIN Frames(cs.message) /\ HasTab(file)
    <3>1. c = [d EXCEPT !.action_list_ptr = @ + skip]
      BY <2>2 DEF AfterSelect, Found
    <3>2. d.action_list_ptr + skip \in Nat
      BY <1>1, <1>2
    <3> HIDE DEF c, skip, file
    <3>3. c \in ClientStates
      BY <3>1, <3>2, Zenon DEF ClientStates
    <3>4. c.action_list_ptr = d.action_list_ptr + skip
      BY <3>1 DEF ClientStates
    <3> QED
      BY <1>1, <2>2, <3>1, <3>3, <3>4 DEF ClientStates
  <2>3. CASE frame \in DOMAIN Frames(cs.message) /\ ~ HasTab(file)
    <3>1. c = [d EXCEPT !.last_source_file = file]
      BY <2>3 DEF AfterSelect, Found
    <3>2. file \in Files \cup {NULL}
      BY <1>2, <2>3
    <3> HIDE DEF c, file
    <3>3. c \in ClientStates
      BY <3>1, <3>2, Zenon DEF ClientStates
    <3> QED
      BY <2>3, <3>1, <3>3 DEF ClientStates
  <2> QED
    BY <2>1, <2>2, <2>3
<1> QED
  BY <1>3

(* The page of the innermost frame. *)
LEMMA TurnToInnermostEffect ==
  ASSUME IInv, Dispatches, process_select_file_line_for_stack_0
  PROVE  TurnedToInnermost
<1> DEFINE m     == cs.message
           shown == 1 \in DOMAIN Frames(m) /\ HasTab(Frames(m)[1])
           place == [file |-> Frames(m)[1], stop |-> m.data.stop]
           check == CurrentItem.func = "process_select_file_line_for_stack_0"
           moved == IF shown THEN [cs EXCEPT !.last_iter = place] ELSE cs
<1>1. /\ dispatching /\ UNCHANGED <<conn, fault, wires>>
      /\ \/ CurrentItem.func = "process_select_file_line_for_stack_0"
         \/ CurrentItem.func = "process_select_file_line_for_stack_0_no_check"
  BY DEF process_select_file_line_for_stack_0, Runs
<1>2. PICK v \in FallOff : Returns(v, AfterSelect(moved, 1, check))
  BY DEF process_select_file_line_for_stack_0
<1>3. ui' = IF shown
            THEN [ui EXCEPT !.current = place.file,
                            !.arrows = MovedArrow(@, cs.last_iter, place)]
            ELSE ui
  BY DEF process_select_file_line_for_stack_0
<1>4. /\ cs \in ClientStates /\ ui \in Widgets /\ m \in Messages
      /\ ui' \in Widgets /\ cs.action_list_ptr \in Nat
  BY <1>1, OnItem, ItemKeeps
<1>5. /\ At("INITIAL", {7, 11}) \/ At("BREAK", {4, 8})
      /\ check => CurrentItem.param = 4
      /\ check <=> At("INITIAL", {7}) \/ At("BREAK", {4})
  BY <1>1, Where DEF At
<1>6. shown => place \in Places
  <2> SUFFICES ASSUME shown PROVE place \in Places
    OBVIOUS
  <2>1. Frames(m) \in Seq(Files) /\ m.data \in [stop : Nat, frames : Seq(Files)]
    BY <1>4, FramesTyped
  <2>2. Frames(m)[1] \in Files /\ m.data.stop \in Nat
    BY <2>1
  <2> QED
    BY <2>2 DEF Places
<1>7. /\ moved \in ClientStates
      /\ moved.server_state = cs.server_state /\ moved.command = cs.command
      /\ moved.message = m
      /\ moved.action_list_ptr = cs.action_list_ptr
      /\ moved.last_source_file = cs.last_source_file
      /\ moved.last_selected_stack_frame = cs.last_selected_stack_frame
      /\ moved.nr_of_stack_frames = cs.nr_of_stack_frames
      /\ moved.path_string = cs.path_string
      /\ moved.last_iter = IF shown THEN place ELSE cs.last_iter
  <2>1. CASE shown
    <3>1. moved = [cs EXCEPT !.last_iter = place]
      BY <2>1
    <3>2. place \in Places \cup {NULL}
      BY <1>6, <2>1
    <3> HIDE DEF moved, place, m, shown
    <3>3. moved \in ClientStates
      BY <1>4, <3>1, <3>2, Zenon DEF ClientStates
    <3>4. moved.last_iter = place
      BY <1>4, <3>1, <3>3, Zenon DEF ClientStates
    <3> QED
      BY <1>4, <2>1, <3>1, <3>3, <3>4 DEF ClientStates, m
  <2>2. CASE ~ shown
    BY <1>4, <2>2
  <2> QED
    BY <2>1, <2>2
<1> DEFINE c == AfterSelect(moved, 1, check)
<1>8. /\ c \in ClientStates
      /\ c.server_state = cs.server_state /\ c.command = cs.command
      /\ c.message = m
      /\ c.last_selected_stack_frame = cs.last_selected_stack_frame
      /\ c.nr_of_stack_frames = cs.nr_of_stack_frames
      /\ c.path_string = cs.path_string
      /\ c.last_iter = IF shown THEN place ELSE cs.last_iter
      /\ IF shown
         THEN /\ c.last_source_file = cs.last_source_file
              /\ c.action_list_ptr = cs.action_list_ptr + (IF check THEN 4 ELSE 0)
         ELSE /\ c.action_list_ptr = cs.action_list_ptr
              /\ c.last_source_file = IF 1 \in DOMAIN Frames(m)
                                      THEN Frames(m)[1] ELSE cs.last_source_file
  <2>1. check \in BOOLEAN /\ 1 \in Int
    OBVIOUS
  <2> HIDE DEF moved, check
  <2> QED
    BY <1>1, <1>4, <1>5, <1>7, <2>1, AfterSelectFields
<1>9. /\ ItemStep /\ dispatching' \in BOOLEAN
      /\ cs'.server_state = cs.server_state
      /\ cs'.command = cs.command
      /\ cs'.action_list_ptr = c.action_list_ptr + 1
      /\ SameNotes(c, cs')
  <2>1. Returns(v, c)
    BY <1>2
  <2> HIDE DEF c
  <2>2. /\ ItemStep /\ dispatching' = (v = NON_INTERACTIVE)
        /\ cs'.server_state = cs.server_state
        /\ cs'.command = cs.command
        /\ cs'.action_list_ptr = c.action_list_ptr + 1
        /\ SameNotes(c, cs')
    BY <1>1, <1>8, <2>1, LeavesBehind
  <2> QED
    BY <2>2
<1> HIDE DEF c
<1>10. /\ ui'.tabs = ui.tabs /\ ui'.stack = ui.stack /\ ui'.vars = ui.vars
       /\ IF shown THEN /\ ui'.current = Frames(m)[1]
                        /\ ui'.arrows = MovedArrow(ui.arrows, cs.last_iter, place)
          ELSE ui' = ui
  <2>1. CASE shown
    <3> DEFINE arrows == MovedArrow(ui.arrows, cs.last_iter, place)
    <3>1. ui' = [ui EXCEPT !.current = place.file, !.arrows = arrows]
      BY <1>3, <2>1
    <3>2. place.file = Frames(m)[1]
      OBVIOUS
    <3> HIDE DEF arrows, place, shown
    <3>3. ui'.arrows = arrows /\ ui'.current = place.file
      BY <1>4, <3>1, Zenon DEF Widgets
    <3>4. ui'.tabs = ui.tabs /\ ui'.stack = ui.stack /\ ui'.vars = ui.vars
      BY <1>4, <3>1 DEF Widgets
    <3> QED
      BY <2>1, <3>2, <3>3, <3>4 DEF arrows
  <2>2. CASE ~ shown
    BY <1>3, <2>2
  <2> QED
    BY <2>1, <2>2
<1> HIDE DEF check
<1>11. /\ cs'.action_list_ptr = IF shown
            THEN cs.action_list_ptr + 1 + (IF check THEN 4 ELSE 0)
            ELSE cs.action_list_ptr + 1
       /\ cs'.last_source_file = IF ~ shown /\ 1 \in DOMAIN Frames(m)
                                 THEN Frames(m)[1] ELSE cs.last_source_file
       /\ cs'.last_iter = IF shown THEN place ELSE cs.last_iter
       /\ cs'.last_selected_stack_frame = cs.last_selected_stack_frame
       /\ cs'.nr_of_stack_frames = cs.nr_of_stack_frames
       /\ cs'.path_string = cs.path_string
  <2> HIDE DEF shown, place
  <2> QED
    BY <1>4, <1>8, <1>9 DEF SameNotes
<1> QED
  BY <1>5, <1>9, <1>10, <1>11 DEF TurnedToInnermost, Turning, Turned, Arrow

(* The page of the selected frame. *)
LEMMA TurnToSelectedEffect ==
  ASSUME IInv, Dispatches, process_select_file_line_for_selected_stack
  PROVE  TurnedToSelected
<1> DEFINE m     == cs.message
           frame == cs.last_selected_stack_frame + 1
           shown == frame \in DOMAIN Frames(m) /\ HasTab(Frames(m)[frame])
           check == CurrentItem.func = "process_select_file_line_for_selected_stack"
           c     == AfterSelect(cs, frame, check)
<1>1. /\ dispatching /\ UNCHANGED <<conn, fault, wires>>
      /\ \/ CurrentItem.func = "process_select_file_line_for_selected_stack"
         \/ CurrentItem.func = "process_select_file_line_for_selected_stack_no_check"
  BY DEF process_select_file_line_for_selected_stack, Runs
<1>2. PICK v \in FallOff : Returns(v, c)
  BY DEF process_select_file_line_for_selected_stack
<1>3. ui' = IF shown THEN [ui EXCEPT !.current = Frames(m)[frame]] ELSE ui
  BY DEF process_select_file_line_for_selected_stack
<1>4. /\ cs \in ClientStates /\ ui \in Widgets /\ m \in Messages
      /\ ui' \in Widgets /\ cs.action_list_ptr \in Nat /\ frame \in Int
  BY <1>1, OnItem, ItemKeeps, FieldTypes
<1>5. /\ At("SELECT_STACK", {2, 6})
      /\ check => CurrentItem.param = 4
      /\ check <=> At("SELECT_STACK", {2})
  BY <1>1, Where DEF At
<1>6. /\ c \in ClientStates
      /\ c.server_state = cs.server_state /\ c.command = cs.command
      /\ c.message = m
      /\ c.last_selected_stack_frame = cs.last_selected_stack_frame
      /\ c.nr_of_stack_frames = cs.nr_of_stack_frames
      /\ c.path_string = cs.path_string
      /\ c.last_iter = cs.last_iter
      /\ IF shown
         THEN /\ c.last_source_file = cs.last_source_file
              /\ c.action_list_ptr = cs.action_list_ptr + (IF check THEN 4 ELSE 0)
         ELSE /\ c.action_list_ptr = cs.action_list_ptr
              /\ c.last_source_file = IF frame \in DOMAIN Frames(m)
                                      THEN Frames(m)[frame] ELSE cs.last_source_file
  <2>1. check \in BOOLEAN
    OBVIOUS
  <2> HIDE DEF check, frame
  <2> QED
    BY <1>1, <1>4, <1>5, <2>1, AfterSelectFields
<1>7. /\ ItemStep /\ dispatching' \in BOOLEAN
      /\ cs'.server_state = cs.server_state
      /\ cs'.command = cs.command
      /\ cs'.action_list_ptr = c.action_list_ptr + 1
      /\ SameNotes(c, cs')
  <2> HIDE DEF c
  <2>1. /\ ItemStep /\ dispatching' = (v = NON_INTERACTIVE)
        /\ cs'.server_state = cs.server_state
        /\ cs'.command = cs.command
        /\ cs'.action_list_ptr = c.action_list_ptr + 1
        /\ SameNotes(c, cs')
    BY <1>1, <1>2, <1>6, LeavesBehind
  <2> QED
    BY <2>1
<1> HIDE DEF c
<1>8. /\ ui'.tabs = ui.tabs /\ ui'.stack = ui.stack /\ ui'.vars = ui.vars
      /\ IF shown THEN ui'.current = Frames(m)[frame] /\ ui'.arrows = ui.arrows
         ELSE ui' = ui
  <2>1. CASE shown
    <3> DEFINE file == Frames(m)[frame]
    <3>1. ui' = [ui EXCEPT !.current = file]
      BY <1>3, <2>1
    <3> HIDE DEF file, shown
    <3> QED
      BY <1>4, <2>1, <3>1 DEF Widgets, file
  <2>2. CASE ~ shown
    BY <1>3, <2>2
  <2> QED
    BY <2>1, <2>2
<1> HIDE DEF check
<1>9. /\ cs'.action_list_ptr = IF shown
            THEN cs.action_list_ptr + 1 + (IF check THEN 4 ELSE 0)
            ELSE cs.action_list_ptr + 1
      /\ cs'.last_source_file = IF ~ shown /\ frame \in DOMAIN Frames(m)
                                THEN Frames(m)[frame] ELSE cs.last_source_file
      /\ cs'.last_iter = cs.last_iter
      /\ cs'.last_selected_stack_frame = cs.last_selected_stack_frame
      /\ cs'.nr_of_stack_frames = cs.nr_of_stack_frames
      /\ cs'.path_string = cs.path_string
  <2> HIDE DEF shown, frame
  <2> QED
    BY <1>4, <1>6, <1>7 DEF SameNotes
<1> QED
  BY <1>5, <1>7, <1>8, <1>9 DEF TurnedToSelected, Turning, Turned

(* Every item has one of these effects. *)
LEMMA ItemEffects ==
  ASSUME IInv, Dispatches
  PROVE  \/ Issued \/ Quiet \/ Added \/ Hung \/ Listed \/ Inspected
         \/ TurnedToInnermost \/ TurnedToSelected \/ Ended \/ Idle
<1>1. DispatchStep /\ UNCHANGED <<engine, accepts>>
  BY DEF Dispatches, userVars
<1>2. CASE process_add_source_file_crash \/ process_fetched_property_crash
  BY <1>1, <1>2 DEF process_add_source_file_crash, process_fetched_property_crash,
                    Crash, Idle, wires
<1> QED
  BY <1>1, <1>2, IssuingItems, MarkEffect, JumpEffect, AddEffect, HangEffect, ListEffect,
     InspectEffect, EndEffect, TurnToInnermostEffect, TurnToSelectedEffect
     DEF DispatchStep
-----------------------------------------------------------------------------
(* The other callbacks. *)

Got ==
    /\ conn = "open" /\ ~ dispatching /\ toClient # << >>
    /\ UNCHANGED <<conn, fault, ui, toEngine, engine, accepts>>
    /\ toClient' = Tail(toClient)
    /\ cs'.message = Head(toClient)
    /\ cs'.command = cs.command

Begun ==
    /\ Got /\ dispatching' /\ ~ InList /\ cs'.action_list_ptr = 1
    /\ \/ /\ Head(toClient).kind = "init" /\ cs'.server_state = "INITIAL"
          /\ SameNotes([cs EXCEPT !.last_source_file = Head(toClient).data], cs')
       \/ /\ Head(toClient).kind = "break" /\ cs'.server_state = "BREAK"
          /\ SameNotes(cs, cs')
       \/ /\ Head(toClient).kind = "stopped" /\ cs'.server_state = "STOPPED"
          /\ SameNotes(cs, cs')

Ignored ==
    /\ Got /\ ~ dispatching' /\ ~ InList /\ cs'.server_state = "INPUT"
    /\ Head(toClient).kind \notin {"init", "break", "stopped"}
    /\ SameNotes(cs, cs')

Resumed ==
    /\ Got /\ dispatching' /\ InList
    /\ cs'.server_state = cs.server_state
    /\ cs'.action_list_ptr = cs.action_list_ptr
    /\ SameNotes(cs, cs')

Sent ==
    /\ conn = "open" /\ ~ dispatching /\ SamePlace
    /\ UNCHANGED <<conn, fault, ui, toClient, engine, accepts>>
    /\ cs.command # NULL /\ cs'.command = NULL
    /\ toEngine' = Append(toEngine, cs.command)
    /\ SameNotes(cs, cs') /\ cs'.message = cs.message

Parted ==
    /\ conn = "open" /\ conn' = "freed" /\ ~ dispatching'
    /\ cs' = NewClientState
    /\ ui' \in Widgets
    /\ ui'.tabs = ui.tabs /\ ui'.current = ui.current /\ ui'.arrows = ui.arrows
    /\ ui'.stack = NoStack /\ ui'.vars = EmptyVarView
    /\ toEngine' = << >> /\ toClient' = << >>
    /\ UNCHANGED <<engine, accepts>>

Opened ==
    /\ conn # "open" /\ conn' = "open" /\ ~ dispatching'
    /\ cs' = NewClientState /\ ui' = ui
    /\ engine'.phase = "starting" /\ engine'.frames = << >>
    /\ engine'.breakpoints = {} /\ engine'.features = {}
    /\ toEngine' = << >>
    /\ \E file \in Files : toClient' = << Msg("init", 0, file) >>
    /\ accepts' = accepts + 1

Clicked ==
    /\ conn = "open" /\ ~ dispatching /\ ~ dispatching'
    /\ Patient => Settled
    /\ UNCHANGED <<conn, fault, toEngine, toClient, engine, accepts>>
    /\ cs'.message = cs.message

Pressed ==
    /\ Clicked /\ SamePlace /\ SameNotes(cs, cs') /\ ui' = ui
    /\ \/ cs'.command = cs.command
       \/ cs'.command # NULL /\ cs'.command.verb \in ButtonVerbs

FrameChosen ==
    /\ Clicked /\ ui' = ui
    /\ \E row \in DOMAIN ui.stack.frames :
          SameNotes([cs EXCEPT !.last_selected_stack_frame = AsChar(row - 1)], cs')
    /\ cs'.server_state = "SELECT_STACK" /\ cs'.action_list_ptr = 1
    /\ cs'.command # NULL /\ cs'.command.verb = "stack_get"

RowChosen ==
    /\ Clicked
    /\ \E row \in ui.vars.hints :
          /\ ui' = [ui EXCEPT !.vars.hints = @ \ {row}]
          /\ SameNotes([cs EXCEPT !.path_string = row], cs')
          /\ cs'.command # NULL /\ cs'.command.verb = "property_get"
          /\ cs'.command.arg = row
    /\ cs'.server_state = "FETCH_PROPERTY" /\ cs'.action_list_ptr = 1

(* Fields of a ClientState with one of the notes changed. *)
LEMMA NotesChanged ==
  ASSUME NEW c \in ClientStates
  PROVE  /\ \A x : /\ [c EXCEPT !.last_source_file = x].last_source_file = x
                   /\ [c EXCEPT !.last_source_file = x].last_selected_stack_frame
                         = c.last_selected_stack_frame
                   /\ [c EXCEPT !.last_source_file = x].nr_of_stack_frames
                         = c.nr_of_stack_frames
                   /\ [c EXCEPT !.last_source_file = x].path_string = c.path_string
                   /\ [c EXCEPT !.last_source_file = x].last_iter = c.last_iter
         /\ \A x : /\ [c EXCEPT !.path_string = x].last_source_file = c.last_source_file
                   /\ [c EXCEPT !.path_string = x].last_selected_stack_frame
                         = c.last_selected_stack_frame
                   /\ [c EXCEPT !.path_string = x].nr_of_stack_frames
                         = c.nr_of_stack_frames
                   /\ [c EXCEPT !.path_string = x].path_string = x
                   /\ [c EXCEPT !.path_string = x].last_iter = c.last_iter
         /\ \A x : /\ [c EXCEPT !.last_selected_stack_frame = x].last_source_file
                         = c.last_source_file
                   /\ [c EXCEPT !.last_selected_stack_frame = x].last_selected_stack_frame = x
                   /\ [c EXCEPT !.last_selected_stack_frame = x].nr_of_stack_frames
                         = c.nr_of_stack_frames
                   /\ [c EXCEPT !.last_selected_stack_frame = x].path_string = c.path_string
                   /\ [c EXCEPT !.last_selected_stack_frame = x].last_iter = c.last_iter
  BY DEF ClientStates

(* A document is read. *)
LEMMA ReadEffect ==
  ASSUME IInv, SocketReadable
  PROVE  Begun \/ Ignored \/ Resumed
<1>1. /\ ReadStep /\ UNCHANGED <<engine, accepts>> /\ cs \in ClientStates
      /\ dispatching \in BOOLEAN
  BY DEF SocketReadable, userVars, IInv, TypeOK, ClientTypeOK
<1>2. ASSUME NEW c \in ClientStates, Reads(c), c.command = cs.command
      PROVE  /\ Got
             /\ cs'.server_state = c.server_state
             /\ cs'.action_list_ptr = c.action_list_ptr
             /\ SameNotes(c, cs')
  <2> DEFINE m == Head(toClient)
  <2>1. /\ conn = "open" /\ ~ dispatching /\ toClient # << >>
        /\ cs' = [c EXCEPT !.message = m]
        /\ toClient' = Tail(toClient)
        /\ UNCHANGED <<conn, fault, ui, toEngine>>
    BY <1>2 DEF Reads
  <2> HIDE DEF m
  <2>2. /\ cs'.server_state = c.server_state
        /\ cs'.action_list_ptr = c.action_list_ptr
        /\ cs'.command = c.command /\ cs'.message = m
        /\ SameNotes(c, cs')
    BY <2>1 DEF ClientStates, SameNotes
  <2> QED
    BY <1>1, <1>2, <2>1, <2>2 DEF Got, m
<1>3. CASE process_state_input_init
  <2> DEFINE file == Head(toClient).data
             c    == [cs EXCEPT !.last_source_file = file]
             d    == WithList(c, "INITIAL")
  <2>1. /\ cs.server_state = "INPUT" /\ toClient # << >> /\ Head(toClient).kind = "init"
        /\ Reads(d) /\ dispatching' = TRUE
    BY <1>3 DEF process_state_input_init
  <2>2. file \in Files \cup {NULL}
    <3>1. Head(toClient) \in Messages
      BY <2>1 DEF IInv, TypeOK
    <3> QED
      BY <2>1, <3>1, FramesTyped
  <2>3. c \in ClientStates /\ c.command = cs.command
    <3> HIDE DEF file
    <3>1. c \in ClientStates
      BY <1>1, <2>2, Zenon DEF ClientStates
    <3> QED
      BY <1>1, <3>1 DEF ClientStates
  <2>4. /\ d \in ClientStates /\ d.command = cs.command
        /\ d.server_state = "INITIAL" /\ d.action_list_ptr = 1
        /\ SameNotes(c, d)
    <3>1. "INITIAL" \in ListNames
      BY DEF ListNames
    <3> HIDE DEF c
    <3> QED
      BY <2>3, <3>1, WithListFields, WithListNotes
  <2> HIDE DEF d
  <2>5. Got /\ cs'.server_state = "INITIAL" /\ cs'.action_list_ptr = 1 /\ SameNotes(d, cs')
    BY <1>2, <2>1, <2>4
  <2>6. SameNotes(c, cs')
    <3> HIDE DEF c
    <3> QED
      BY <2>4, <2>5 DEF SameNotes
  <2> QED
    BY <2>1, <2>5, <2>6 DEF Begun, InList
<1>4. ASSUME NEW list \in {"BREAK", "STOPPED"}, Reads(WithList(cs, list))
      PROVE  /\ Got /\ cs'.server_state = list /\ cs'.action_list_ptr = 1
             /\ SameNotes(cs, cs')
  <2> DEFINE d == WithList(cs, list)
  <2>1. /\ d \in ClientStates /\ d.command = cs.command
        /\ d.server_state = list /\ d.action_list_ptr = 1
        /\ SameNotes(cs, d)
    <3>1. list \in ListNames
      BY DEF ListNames
    <3> QED
      BY <1>1, <3>1, WithListFields, WithListNotes
  <2>2. Reads(d)
    BY <1>4
  <2> HIDE DEF d
  <2>3. Got /\ cs'.server_state = list /\ cs'.action_list_ptr = 1 /\ SameNotes(d, cs')
    BY <1>2, <2>1, <2>2
  <2> QED
    BY <2>1, <2>3 DEF SameNotes
<1>5. CASE process_state_input_break
  BY <1>4, <1>5 DEF process_state_input_break, Begun, InList
<1>6. CASE process_state_input_stopped
  BY <1>4, <1>6 DEF process_state_input_stopped, Begun, InList
<1>7. CASE process_state_input_other
  BY <1>1, <1>2, <1>7 DEF process_state_input_other, Ignored, InList, Got
<1>8. CASE process_request
  BY <1>1, <1>2, <1>8 DEF process_request, Resumed, InList
<1> QED
  BY <1>1, <1>3, <1>5, <1>6, <1>7, <1>8 DEF ReadStep

(* The command is written. *)
LEMMA WriteEffect ==
  ASSUME IInv, SocketWritable
  PROVE  Sent
<1>1. /\ conn = "open" /\ ~ dispatching /\ cs.out
      /\ toEngine' = Append(toEngine, cs.command)
      /\ cs' = [cs EXCEPT !.command = NULL, !.out = FALSE]
      /\ UNCHANGED <<conn, fault, dispatching, ui, toClient, engine, accepts>>
  BY DEF SocketWritable, IoWrite, WritesOut, Written, userVars
<1>2. cs.command # NULL /\ cs \in ClientStates
  BY <1>1 DEF IInv, OutIffCommand, TypeOK, ClientTypeOK
<1>3. /\ cs'.command = NULL /\ SameNotes(cs, cs') /\ cs'.message = cs.message
      /\ cs'.server_state = cs.server_state /\ cs'.action_list = cs.action_list
      /\ cs'.action_list_ptr = cs.action_list_ptr
  BY <1>1, <1>2 DEF ClientStates, SameNotes
<1> QED
  BY <1>1, <1>2, <1>3 DEF Sent, SamePlace

(* The connection is lost. *)
LEMMA LoseEffect ==
  ASSUME IInv, SocketError
  PROVE  Parted
<1>1. /\ conn = "open" /\ ~ dispatching /\ conn' = "freed"
      /\ cs' = NewClientState
      /\ ui' = [ui EXCEPT !.stack = NoStack, !.vars = EmptyVarView]
      /\ toEngine' = << >> /\ toClient' = << >>
      /\ UNCHANGED <<dispatching, engine, accepts>>
  BY DEF SocketError, IoError, ViewsEmptied, userVars
<1>2. ui \in Widgets
  BY DEF IInv, TypeOK, ClientTypeOK
<1>3. ui' \in Widgets
  BY <1>1, <1>2, EmptyViewsTyped, Zenon DEF Widgets
<1>4. /\ ui'.tabs = ui.tabs /\ ui'.current = ui.current /\ ui'.arrows = ui.arrows
      /\ ui'.stack = NoStack /\ ui'.vars = EmptyVarView
  BY <1>1, <1>2, Zenon DEF Widgets
<1> QED
  BY <1>1, <1>3, <1>4 DEF Parted

(* A session opens. *)
LEMMA OpenEffect ==
  ASSUME IInv, Connect
  PROVE  Opened
<1>1. /\ conn # "open" /\ conn' = "open" /\ cs' = NewClientState
      /\ accepts' = accepts + 1
      /\ UNCHANGED <<dispatching, ui>>
  BY DEF Connect, async_accept
<1>2. PICK file \in Files : Connects(file)
  BY DEF Connect
<1>3. engine' = [engine EXCEPT !.phase = "starting", !.frames = << >>,
                               !.breakpoints = {}, !.features = {}]
  BY <1>2 DEF Connects
<1>4. /\ engine'.phase = "starting" /\ engine'.frames = << >>
      /\ engine'.breakpoints = {} /\ engine'.features = {}
  BY <1>3 DEF IInv, TypeOK, EngineTypeOK
<1>5. ~ dispatching
  BY <1>1 DEF IInv, Reading
<1> QED
  BY <1>1, <1>2, <1>4, <1>5 DEF Opened, Connects

(* A command a click leaves behind: its verb and argument, and the notes.  *)
LEMMA RequestsLeaves ==
  ASSUME NEW c \in ClientStates, NEW verb, NEW arg,
         \A t \in Nat : Cmd(verb, t, arg) \in Commands
  PROVE  LET d == Requests(c, verb, arg)
         IN  /\ d.command # NULL /\ d.command.verb = verb /\ d.command.arg = arg
             /\ d.server_state = c.server_state
             /\ d.action_list = c.action_list
             /\ d.action_list_ptr = c.action_list_ptr
             /\ d.message = c.message
             /\ SameNotes(c, d)
<1> DEFINE d == Requests(c, verb, arg)
<1>1. d.command = Cmd(verb, c.last_tid + 1, arg)
  BY DEF Requests, WithCommand, ClientStates
<1>2. d.command.verb = verb /\ d.command.arg = arg
  BY <1>1 DEF Cmd
<1> HIDE DEF d
<1> QED
  BY <1>2, RequestsFields, RequestsNotes DEF d

(* A button is pressed. *)
LEMMA PressEffect ==
  ASSUME IInv, UserPresses
  PROVE  Pressed
<1>1. PICK verb \in ButtonVerbs : process_a_button(verb)
  BY DEF UserPresses
<1> DEFINE c == SavedPaths(cs)
           d == Requests(c, verb, NULL)
<1>2. /\ conn = "open" /\ ~ dispatching /\ cs' = IF cs.buttons_active THEN d ELSE c
      /\ UNCHANGED <<conn, fault, dispatching, ui, toEngine, toClient, engine, accepts>>
      /\ Patient => Settled
  BY <1>1 DEF process_a_button, UserPresses, Clicks, wires
<1>3. cs \in ClientStates
  BY DEF IInv, TypeOK, ClientTypeOK
<1>4. /\ c \in ClientStates
      /\ c.command = cs.command /\ c.message = cs.message
      /\ c.server_state = cs.server_state
      /\ c.action_list = cs.action_list
      /\ c.action_list_ptr = cs.action_list_ptr
      /\ SameNotes(cs, c)
  <2>1. cs.nr_of_stack_frames + 4 \in Nat
    BY <1>3, FieldTypes
  <2>2. CASE cs.nr_of_stack_frames > cs.stack_info_size
    <3> DEFINE size == cs.nr_of_stack_frames + 4
    <3>1. c = [cs EXCEPT !.stack_info_size = size]
      BY <2>2 DEF SavedPaths
    <3> HIDE DEF size, c
    <3>2. c \in ClientStates
      BY <1>3, <2>1, <3>1, Zenon DEF ClientStates, size
    <3> QED
      BY <1>3, <3>1, <3>2 DEF ClientStates, SameNotes
  <2>3. CASE ~ (cs.nr_of_stack_frames > cs.stack_info_size)
    BY <1>3, <2>3 DEF SavedPaths, SameNotes
  <2> QED
    BY <2>2, <2>3
<1>5. /\ d.command # NULL /\ d.command.verb = verb
      /\ d.server_state = cs.server_state
      /\ d.action_list = cs.action_list
      /\ d.action_list_ptr = cs.action_list_ptr
      /\ d.message = cs.message
      /\ SameNotes(c, d)
  <2>1. \A t \in Nat : Cmd(verb, t, NULL) \in Commands
    BY CommandTyped
  <2> HIDE DEF c
  <2> QED
    BY <1>4, <2>1, RequestsLeaves
<1> HIDE DEF c, d
<1>6. /\ cs'.server_state = cs.server_state
      /\ cs'.action_list = cs.action_list
      /\ cs'.action_list_ptr = cs.action_list_ptr
      /\ cs'.message = cs.message
      /\ SameNotes(cs, cs')
      /\ cs'.command = cs.command \/ (cs'.command # NULL /\ cs'.command.verb \in ButtonVerbs)
  BY <1>2, <1>4, <1>5 DEF SameNotes
<1> QED
  BY <1>2, <1>6 DEF Pressed, Clicked, SamePlace

(* A frame is chosen. *)
LEMMA ChooseFrameEffect ==
  ASSUME IInv, UserSelectsFrame
  PROVE  FrameChosen
<1>1. PICK row \in DOMAIN ui.stack.frames : stack_selection_function(row)
  BY DEF UserSelectsFrame
<1>2. cs \in ClientStates /\ ui \in Widgets
  BY DEF IInv, TypeOK, ClientTypeOK
<1> DEFINE level == AsChar(row - 1)
           c == [cs EXCEPT !.last_selected_stack_frame = level]
           d == WithList(c, "SELECT_STACK")
           e == Requests(d, "stack_get", NULL)
<1>3. /\ ~ dispatching /\ cs' = e
      /\ UNCHANGED <<conn, fault, dispatching, ui, toEngine, toClient, engine, accepts>>
      /\ Patient => Settled
  BY <1>1 DEF stack_selection_function, UserSelectsFrame, Clicks, wires
<1>4. conn = "open"
  <2>1. ui.stack.frames # << >>
    BY <1>1
  <2> QED
    BY <2>1 DEF IInv, RowsOnlyWhenConnected
<1>5. level \in Int
  <2>1. row \in Int
    BY <1>2 DEF Widgets
  <2> QED
    BY <2>1 DEF AsChar
<1>6. c \in ClientStates /\ c.message = cs.message
  <2> HIDE DEF level
  <2>1. c \in ClientStates
    BY <1>2, <1>5, Zenon DEF ClientStates
  <2> QED
    BY <1>2, <2>1 DEF ClientStates
<1>7. /\ d \in ClientStates /\ d.server_state = "SELECT_STACK" /\ d.action_list_ptr = 1
      /\ d.message = cs.message /\ SameNotes(c, d)
  <2>1. "SELECT_STACK" \in ListNames
    BY DEF ListNames
  <2> HIDE DEF c
  <2> QED
    BY <1>6, <2>1, WithListFields, WithListNotes
<1>8. /\ e.command # NULL /\ e.command.verb = "stack_get"
      /\ e.server_state = "SELECT_STACK" /\ e.action_list_ptr = 1
      /\ e.message = cs.message /\ SameNotes(d, e)
  <2>1. \A t \in Nat : Cmd("stack_get", t, NULL) \in Commands
    BY CommandTyped
  <2> HIDE DEF d
  <2> QED
    BY <1>7, <2>1, RequestsLeaves
<1>9. SameNotes(c, e)
  <2> HIDE DEF c, d, e
  <2> QED
    BY <1>7, <1>8 DEF SameNotes
<1> HIDE DEF d, e
<1> QED
  BY <1>1, <1>3, <1>4, <1>8, <1>9 DEF FrameChosen, Clicked

(* A variable is chosen. *)
LEMMA ChooseRowEffect ==
  ASSUME IInv, UserSelectsVariable
  PROVE  RowChosen
<1>1. PICK row \in VarRows : varview_selection_function(row)
  BY DEF UserSelectsVariable
<1>2. cs \in ClientStates /\ ui \in Widgets
  BY DEF IInv, TypeOK, ClientTypeOK
<1> DEFINE c == [cs EXCEPT !.path_string = row]
           d == WithList(c, "FETCH_PROPERTY")
           e == Requests(d, "property_get", row)
<1>3. /\ ~ dispatching /\ row \in ui.vars.hints /\ cs' = e
      /\ ui' = [ui EXCEPT !.vars.hints = @ \ {row}]
      /\ UNCHANGED <<conn, fault, dispatching, toEngine, toClient, engine, accepts>>
      /\ Patient => Settled
  BY <1>1 DEF varview_selection_function, UserSelectsVariable, Clicks, wires, RowRemembered
<1>4. conn = "open"
  <2>1. ui.vars.rows # {}
    BY <1>3 DEF IInv, HintsAreRows
  <2> QED
    BY <2>1 DEF IInv, RowsOnlyWhenConnected
<1>5. c \in ClientStates /\ c.message = cs.message
  <2>1. row \in VarRows \cup {NULL}
    OBVIOUS
  <2>2. c \in ClientStates
    BY <1>2, <2>1, Zenon DEF ClientStates
  <2> QED
    BY <1>2, <2>2 DEF ClientStates
<1>6. /\ d \in ClientStates /\ d.server_state = "FETCH_PROPERTY" /\ d.action_list_ptr = 1
      /\ d.message = cs.message /\ SameNotes(c, d)
  <2>1. "FETCH_PROPERTY" \in ListNames
    BY DEF ListNames
  <2> HIDE DEF c
  <2> QED
    BY <1>5, <2>1, WithListFields, WithListNotes
<1>7. /\ e.command # NULL /\ e.command.verb = "property_get" /\ e.command.arg = row
      /\ e.server_state = "FETCH_PROPERTY" /\ e.action_list_ptr = 1
      /\ e.message = cs.message /\ SameNotes(d, e)
  <2>1. \A t \in Nat : Cmd("property_get", t, row) \in Commands
    BY CommandTyped
  <2> HIDE DEF d
  <2> QED
    BY <1>6, <2>1, RequestsLeaves
<1>8. SameNotes(c, e)
  <2> HIDE DEF c, d, e
  <2> QED
    BY <1>6, <1>7 DEF SameNotes
<1> HIDE DEF d, e
<1>9. Clicked
  BY <1>3, <1>4, <1>7 DEF Clicked
<1> QED
  BY <1>3, <1>7, <1>8, <1>9 DEF RowChosen
-----------------------------------------------------------------------------
(* The engine. *)

EngineActs == UNCHANGED <<conn, fault, dispatching, cs, ui, accepts>>

SameScript ==
    /\ engine'.frames = engine.frames /\ engine'.stop = engine.stop
    /\ engine'.breakpoints = engine.breakpoints
    /\ engine'.features = engine.features

Asked == Head(toEngine)

TakesOne ==
    /\ EngineActs
    /\ engine.phase \in {"starting", "break", "stopping"}
    /\ toEngine # << >> /\ toEngine' = Tail(toEngine)

(* When an error is all the engine can answer. *)
TurnsDown(c) ==
    \/ c.verb \in Refused
    \/ c.verb = "source" /\ c.arg \notin Files
    \/ /\ c.verb = "context_get"
       /\ ~ (engine.phase = "break" /\ c.arg + 1 \in DOMAIN engine.frames)
    \/ c.verb = "property_get" /\ engine.phase # "break"

Answers(c, m) ==
    \/ m.kind = "error" /\ TurnsDown(c)
    \/ c.verb = "source" /\ m.kind = "source" /\ m.data = c.arg
    \/ /\ c.verb = "stack_get" /\ m.kind = "stack"
       /\ m.data = [stop   |-> engine.stop,
                    frames |-> IF engine.phase = "break" THEN engine.frames ELSE << >>]
    \/ /\ c.verb = "context_get" /\ m.kind = "context"
       /\ m.data = [stop |-> engine.stop, level |-> c.arg]
    \/ c.verb = "property_get" /\ m.kind = "property" /\ m.data = c.arg

Replied ==
    /\ TakesOne
    /\ engine' = engine
    /\ \E m \in Messages : toClient' = Append(toClient, m) /\ Answers(Asked, m)

Accepted ==
    /\ TakesOne
    /\ engine'.phase = engine.phase
    /\ engine'.frames = engine.frames /\ engine'.stop = engine.stop
    /\ \/ /\ Asked.verb = "breakpoint_set"
          /\ engine'.breakpoints = engine.breakpoints \cup {Asked.arg}
          /\ engine'.features = engine.features
       \/ /\ Asked.verb = "feature_set"
          /\ engine'.breakpoints = engine.breakpoints
          /\ engine'.features = engine.features \cup {Asked.arg}
    /\ \E m \in Messages : toClient' = Append(toClient, m) /\ m.kind = "ok"

Continued ==
    /\ TakesOne /\ SameScript
    /\ Asked.verb \in ContinueVerbs
    /\ engine'.phase = IF engine.phase = "stopping" THEN "gone" ELSE "running"
    /\ toClient' = toClient

Left ==
    /\ TakesOne /\ SameScript
    /\ Asked.verb \in EndVerbs
    /\ engine'.phase = "gone"
    /\ \/ toClient' = toClient
       \/ \E m \in Messages : toClient' = Append(toClient, m) /\ m.kind = "stopped"

Stopped ==
    /\ EngineActs /\ toEngine' = toEngine
    /\ engine.phase = "running" /\ engine'.phase = "break"
    /\ engine'.frames \in Stacks /\ engine'.stop = engine.stop + 1
    /\ engine'.breakpoints = engine.breakpoints
    /\ engine'.features = engine.features
    /\ \E m \in Messages : toClient' = Append(toClient, m) /\ m.kind = "break"

Finished ==
    /\ EngineActs /\ toEngine' = toEngine
    /\ engine.phase = "running" /\ engine'.phase = "stopping"
    /\ EmptyScripts \/ engine.frames # << >>
    /\ SameScript
    /\ \E m \in Messages : toClient' = Append(toClient, m) /\ m.kind = "stopped"

Died ==
    /\ EngineActs /\ SameScript
    /\ engine'.phase = "gone"
    /\ toEngine' = toEngine /\ toClient' = toClient

(* A document that is sent, with the fields it is made of. *)
LEMMA SendsOne ==
  ASSUME NEW kind, NEW tid, NEW data, Msg(kind, tid, data) \in Messages,
         Sends(kind, tid, data)
  PROVE  \E m \in Messages : /\ toClient' = Append(toClient, m)
                             /\ m.kind = kind /\ m.tid = tid /\ m.data = data
<1>1. /\ Msg(kind, tid, data).kind = kind /\ Msg(kind, tid, data).tid = tid
      /\ Msg(kind, tid, data).data = data
  BY DEF Msg
<1> QED
  BY <1>1 DEF Sends

(* The types the engine starts from. *)
LEMMA EngineStarts ==
  ASSUME IInv
  PROVE  EnginesTyped /\ EngineTypeOK
  BY DEF IInv, TypeOK, EnginesTyped

(* A command is answered, *)
LEMMA AnswerEffect ==
  ASSUME IInv, EngineActs,
         \/ EngineRefuses \/ EngineSendsSource \/ EngineSendsStack
         \/ EngineSendsContext \/ EngineSendsProperty
  PROVE  Replied
<1> DEFINE c == Head(toEngine)
<1>1. EnginesTyped /\ EngineTypeOK /\ engine.stop \in Nat /\ engine.frames \in Seq(Files)
  BY EngineStarts, EngineFields
<1>2. ASSUME NEW verbs, Takes(verbs), engine' = engine, NEW kind, NEW data,
             Msg(kind, c.tid, data) \in Messages, Sends(kind, c.tid, data),
             \A m \in Messages : m.kind = kind /\ m.data = data => Answers(c, m)
      PROVE  Replied
  <2>1. TakesOne
    BY <1>2 DEF Takes, TakesOne
  <2>2. PICK m \in Messages : /\ toClient' = Append(toClient, m)
                              /\ m.kind = kind /\ m.data = data
    BY <1>2, SendsOne
  <2> QED
    BY <1>2, <2>1, <2>2 DEF Replied, Asked
<1>3. ASSUME NEW verbs, Takes(verbs), engine' = engine, TurnsDown(c),
             Sends("error", c.tid, NULL)
      PROVE  Replied
  <2>1. Msg("error", c.tid, NULL) \in Messages
    BY <1>1, <1>3, TakesTyped, MessagesTyped
  <2>2. \A m \in Messages : m.kind = "error" /\ m.data = NULL => Answers(c, m)
    BY <1>3 DEF Answers
  <2> HIDE DEF c
  <2> QED
    BY <1>2, <1>3, <2>1, <2>2
<1>4. CASE EngineRefuses
  BY <1>3, <1>4 DEF EngineRefuses, Takes, TurnsDown
<1>5. CASE EngineSendsSource
  <2>1. /\ Takes({"source"}) /\ engine' = engine /\ c.verb = "source"
        /\ IF c.arg \in Files THEN Sends("source", c.tid, c.arg)
                              ELSE Sends("error", c.tid, NULL)
    BY <1>5 DEF EngineSendsSource, Takes
  <2>2. CASE c.arg \in Files
    <3>1. Msg("source", c.tid, c.arg) \in Messages
      BY <1>1, <2>1, <2>2, TakesTyped, MessagesTyped
    <3>2. \A m \in Messages : m.kind = "source" /\ m.data = c.arg => Answers(c, m)
      BY <2>1 DEF Answers
    <3> HIDE DEF c
    <3> QED
      BY <1>2, <2>1, <2>2, <3>1, <3>2
  <2>3. CASE c.arg \notin Files
    BY <1>3, <2>1, <2>3 DEF TurnsDown
  <2> QED
    BY <2>2, <2>3
<1>6. CASE EngineSendsStack
  <2> DEFINE frames == IF engine.phase = "break" THEN engine.frames ELSE << >>
             data   == [stop |-> engine.stop, frames |-> frames]
  <2>1. /\ Takes({"stack_get"}) /\ engine' = engine /\ c.verb = "stack_get"
        /\ Sends("stack", c.tid, data)
    BY <1>6 DEF EngineSendsStack, Takes
  <2>2. Msg("stack", c.tid, data) \in Messages
    <3>1. frames \in Seq(Files) /\ c.tid \in Nat
      BY <1>1, <2>1, TakesTyped
    <3> HIDE DEF frames, c
    <3> QED
      BY <1>1, <3>1, MessagesTyped
  <2>3. \A m \in Messages : m.kind = "stack" /\ m.data = data => Answers(c, m)
    BY <2>1 DEF Answers
  <2> HIDE DEF c, data
  <2> QED
    BY <1>2, <2>1, <2>2, <2>3
<1>7. CASE EngineSendsContext
  <2> DEFINE data == [stop |-> engine.stop, level |-> c.arg]
  <2>1. /\ Takes({"context_get"}) /\ engine' = engine /\ c.verb = "context_get"
        /\ c \in Commands /\ c.tid \in Nat
    BY <1>1, <1>7, TakesTyped DEF EngineSendsContext
  <2>2. c.arg \in Int
    BY <2>1 DEF Commands, ButtonVerbs, ContinueVerbs, EndVerbs
  <2>3. Msg("context", c.tid, data) \in Messages
    BY <1>1, <2>1, <2>2, MessagesTyped
  <2>4. \A m \in Messages : m.kind = "context" /\ m.data = data => Answers(c, m)
    BY <2>1 DEF Answers
  <2>5. CASE engine.phase = "break" /\ c.arg + 1 \in DOMAIN engine.frames
    <3>1. Sends("context", c.tid, data)
      BY <1>7, <2>5 DEF EngineSendsContext
    <3> HIDE DEF c, data
    <3> QED
      BY <1>2, <2>1, <2>3, <2>4, <3>1
  <2>6. CASE ~ (engine.phase = "break" /\ c.arg + 1 \in DOMAIN engine.frames)
    <3>1. Sends("error", c.tid, NULL)
      BY <1>7, <2>6 DEF EngineSendsContext
    <3>2. TurnsDown(c)
      BY <2>1, <2>6 DEF TurnsDown
    <3> HIDE DEF c
    <3> QED
      BY <1>3, <2>1, <3>1, <3>2
  <2> QED
    BY <2>5, <2>6
<1>8. CASE EngineSendsProperty
  <2>1. /\ Takes({"property_get"}) /\ engine' = engine /\ c.verb = "property_get"
        /\ c \in Commands /\ c.tid \in Nat
    BY <1>1, <1>8, TakesTyped DEF EngineSendsProperty
  <2>2. c.arg \in VarRows
    BY <2>1 DEF Commands, ButtonVerbs, ContinueVerbs, EndVerbs
  <2>3. Msg("property", c.tid, c.arg) \in Messages
    BY <2>1, <2>2, MessagesTyped
  <2>4. \A m \in Messages : m.kind = "property" /\ m.data = c.arg => Answers(c, m)
    BY <2>1 DEF Answers
  <2>5. CASE engine.phase = "break"
    <3>1. Sends("property", c.tid, c.arg)
      BY <1>8, <2>5 DEF EngineSendsProperty
    <3> HIDE DEF c
    <3> QED
      BY <1>2, <2>1, <2>3, <2>4, <3>1
  <2>6. CASE engine.phase # "break"
    <3>1. Sends("error", c.tid, NULL)
      BY <1>8, <2>6 DEF EngineSendsProperty
    <3>2. TurnsDown(c)
      BY <2>1, <2>6 DEF TurnsDown
    <3> HIDE DEF c
    <3> QED
      BY <1>3, <2>1, <3>1, <3>2
  <2> QED
    BY <2>5, <2>6
<1> QED
  BY <1>4, <1>5, <1>6, <1>7, <1>8

(* or done, *)
LEMMA AcceptEffect ==
  ASSUME IInv, EngineActs, EngineAccepts
  PROVE  Accepted
<1> DEFINE c == Head(toEngine)
           points   == engine.breakpoints \cup {c.arg}
           features == engine.features \cup {c.arg}
<1>1. EnginesTyped /\ EngineTypeOK
  BY EngineStarts
<1>2. /\ TakesOne /\ c.tid \in Nat /\ c.verb \in {"breakpoint_set", "feature_set"}
      /\ Sends("ok", c.tid, NULL)
  BY <1>1, TakesTyped DEF EngineAccepts, Takes, TakesOne
<1>3. \E m \in Messages : toClient' = Append(toClient, m) /\ m.kind = "ok"
  <2>1. Msg("ok", c.tid, NULL) \in Messages
    BY <1>2, MessagesTyped
  <2> HIDE DEF c
  <2> QED
    BY <1>2, <2>1, SendsOne
<1>4. engine' = IF c.verb = "breakpoint_set" THEN [engine EXCEPT !.breakpoints = points]
                                             ELSE [engine EXCEPT !.features = features]
  BY DEF EngineAccepts
<1>5. /\ engine'.phase = engine.phase
      /\ engine'.frames = engine.frames /\ engine'.stop = engine.stop
      /\ engine'.breakpoints = IF c.verb = "breakpoint_set" THEN points
                                                            ELSE engine.breakpoints
      /\ engine'.features = IF c.verb = "breakpoint_set" THEN engine.features ELSE features
  <2> HIDE DEF c, points, features
  <2> QED
    BY <1>1, <1>4 DEF EngineTypeOK
<1> QED
  BY <1>2, <1>3, <1>5 DEF Accepted, Asked

(* or the script goes on, *)
LEMMA ContinueEffect ==
  ASSUME IInv, EngineActs, EngineContinues
  PROVE  Continued
<1> DEFINE t == Head(toEngine).tid
<1>1. EngineTypeOK
  BY EngineStarts
<1>2. TakesOne /\ Asked.verb \in ContinueVerbs /\ toClient' = toClient
  BY DEF EngineContinues, Takes, TakesOne, Asked
<1>3. engine' = IF engine.phase = "stopping"
                THEN [engine EXCEPT !.phase = "gone"]
                ELSE [engine EXCEPT !.phase = "running", !.run_tid = t]
  BY DEF EngineContinues
<1> HIDE DEF t
<1>4. SameScript /\ engine'.phase = IF engine.phase = "stopping" THEN "gone" ELSE "running"
  BY <1>1, <1>3 DEF EngineTypeOK, SameScript
<1> QED
  BY <1>2, <1>4 DEF Continued

(* or is left to itself. *)
LEMMA LeaveEffect ==
  ASSUME IInv, EngineActs, EngineLeaves
  PROVE  Left
<1>1. EnginesTyped /\ EngineTypeOK
  BY EngineStarts
<1>2. TakesOne /\ Asked.verb \in EndVerbs /\ Asked.tid \in Nat
  BY <1>1, TakesTyped DEF EngineLeaves, Takes, TakesOne, Asked
<1>3. SameScript /\ engine'.phase = "gone"
  BY <1>1 DEF EngineLeaves, EngineTypeOK, SameScript
<1>4. \/ toClient' = toClient
      \/ \E m \in Messages : toClient' = Append(toClient, m) /\ m.kind = "stopped"
  <2>1. Sends("stopped", Asked.tid, NULL) \/ UNCHANGED toClient
    BY DEF EngineLeaves, Asked
  <2>2. Msg("stopped", Asked.tid, NULL) \in Messages
    BY <1>2, MessagesTyped
  <2> QED
    BY <2>1, <2>2, SendsOne
<1> QED
  BY <1>2, <1>3, <1>4 DEF Left

(* A running script stops, ends, or dies, as it may without running. *)
LEMMA ScriptEffect ==
  ASSUME IInv, EngineActs, ScriptStops \/ ScriptEnds \/ EngineDies
  PROVE  Stopped \/ Finished \/ Died
<1>1. EngineTypeOK /\ engine.run_tid \in Nat /\ engine.stop \in Nat
  BY EngineStarts, EngineFields
<1>2. CASE ScriptStops
  <2>1. PICK frames \in Stacks :
           engine' = [engine EXCEPT !.phase = "break", !.frames = frames, !.stop = @ + 1]
    BY <1>2 DEF ScriptStops
  <2>2. /\ engine'.phase = "break" /\ engine'.frames \in Stacks
        /\ engine'.stop = engine.stop + 1
        /\ engine'.breakpoints = engine.breakpoints
        /\ engine'.features = engine.features
    BY <1>1, <2>1 DEF EngineTypeOK
  <2>3. Sends("break", engine.run_tid, NULL) /\ engine.phase = "running"
        /\ toEngine' = toEngine
    BY <1>2 DEF ScriptStops
  <2>4. Msg("break", engine.run_tid, NULL) \in Messages
    BY <1>1, MessagesTyped
  <2>5. \E m \in Messages : toClient' = Append(toClient, m) /\ m.kind = "break"
    BY <2>3, <2>4, SendsOne
  <2> QED
    BY <2>2, <2>3, <2>5 DEF Stopped
<1>3. CASE ScriptEnds
  <2>1. /\ Sends("stopped", engine.run_tid, NULL) /\ engine.phase = "running"
        /\ EmptyScripts \/ engine.frames # << >>
        /\ toEngine' = toEngine
        /\ engine' = [engine EXCEPT !.phase = "stopping"]
    BY <1>3 DEF ScriptEnds
  <2>2. engine'.phase = "stopping" /\ SameScript
    BY <1>1, <2>1 DEF EngineTypeOK, SameScript
  <2>3. Msg("stopped", engine.run_tid, NULL) \in Messages
    BY <1>1, MessagesTyped
  <2>4. \E m \in Messages : toClient' = Append(toClient, m) /\ m.kind = "stopped"
    BY <2>1, <2>3, SendsOne
  <2> QED
    BY <2>1, <2>2, <2>4 DEF Finished
<1>4. CASE EngineDies
  BY <1>1, <1>4 DEF EngineDies, EngineTypeOK, SameScript, Died, wires
<1> QED
  BY <1>2, <1>3, <1>4

(***************************************************************************)
(* Every step, of whomever, has one of the effects.                        *)
(***************************************************************************)
Dispatching ==
    \/ Issued \/ Quiet \/ Added \/ Hung \/ Listed \/ Inspected
    \/ TurnedToInnermost \/ TurnedToSelected \/ Ended

OnWire == Begun \/ Ignored \/ Resumed \/ Sent \/ Parted \/ Opened

ByUser == Pressed \/ FrameChosen \/ RowChosen

ByEngine ==
    Replied \/ Accepted \/ Continued \/ Left \/ Stopped \/ Finished \/ Died

(* By whom the step is, and what it may be. *)
LEMMA StepEffects ==
  ASSUME IInv, [Next]_vars
  PROVE  Dispatching \/ OnWire \/ ByUser \/ ByEngine \/ Idle
<1>1. CASE Connect
  BY <1>1, OpenEffect DEF OnWire
<1>2. CASE UserPresses
  BY <1>2, PressEffect DEF ByUser
<1>3. CASE UserPressesTooEarly
  BY <1>3 DEF UserPressesTooEarly, Clicks, process_a_button_no_frames, Crash, wires, Idle
<1>4. CASE UserPressesUnconnected
  BY <1>4 DEF UserPressesUnconnected, Clicks, process_a_button_no_connection, Crash, wires, Idle
<1>5. CASE UserSelectsFrame
  BY <1>5, ChooseFrameEffect DEF ByUser
<1>6. CASE UserSelectsVariable
  BY <1>6, ChooseRowEffect DEF ByUser
<1>7. CASE SocketReadable
  BY <1>7, ReadEffect DEF OnWire
<1>8. CASE SocketWritable
  BY <1>8, WriteEffect DEF OnWire
<1>9. CASE SocketError
  BY <1>9, LoseEffect DEF OnWire
<1>10. CASE Dispatches
  BY <1>10, ItemEffects DEF Dispatching
<1>11. CASE EngineStep
  <2>1. EngineActs
    BY <1>11 DEF EngineStep, EngineActs, clientVars, userVars
  <2>2. EngineAnswers \/ ScriptStops \/ ScriptEnds
    BY <1>11 DEF EngineStep
  <2> QED
    BY <2>1, <2>2, AnswerEffect, AcceptEffect, ContinueEffect, LeaveEffect, ScriptEffect
       DEF EngineAnswers, ByEngine
<1>12. CASE EngineFails
  <2>1. EngineActs /\ EngineDies
    BY <1>12 DEF EngineFails, EngineActs, clientVars, userVars
  <2> QED
    BY <2>1, ScriptEffect DEF ByEngine
<1>13. CASE UNCHANGED vars
  BY <1>13 DEF vars, clientVars, wires, userVars, Idle
<1> QED
  BY <1>1, <1>2, <1>3, <1>4, <1>5, <1>6, <1>7, <1>8, <1>9, <1>10, <1>11, <1>12, <1>13 DEF Next
-----------------------------------------------------------------------------
(***************************************************************************)
(* Whatever the user does, what is noted to be fetched has no page, but    *)
(* for the file that opens a session: no row is there to be clicked before *)
(* that file has been dealt with.                                          *)
(***************************************************************************)
NothingShown == ui.stack.frames = << >> /\ ui.vars.rows = {}

NamesNewFile ==
    cs.last_source_file # NULL /\ HasTab(cs.last_source_file)
    => cs.server_state = "INITIAL" /\ cs.action_list_ptr <= 3

StartsEmpty ==
    cs.server_state = "INITIAL" /\ cs.action_list_ptr <= 3 => NothingShown

GreetsFirst ==
    \A i \in DOMAIN toClient :
       toClient[i].kind = "init" => i = 1 /\ ~ InList /\ NothingShown

NewFiles == NamesNewFile /\ StartsEmpty /\ GreetsFirst

(* The fields an effect speaks of are of their types. *)
LEMMA EffectTypes ==
  ASSUME IInv
  PROVE  /\ cs \in ClientStates /\ ui \in Widgets
         /\ cs.action_list_ptr \in Nat
         /\ dispatching \in BOOLEAN
         /\ toClient \in Seq(Messages) /\ toEngine \in Seq(Commands)
         /\ cs.command \in Commands \cup {NULL} /\ cs.message \in Messages \cup {NULL}
<1>1. /\ TypeOK /\ cs \in ClientStates /\ ui \in Widgets /\ dispatching \in BOOLEAN
      /\ toClient \in Seq(Messages) /\ toEngine \in Seq(Commands)
  BY DEF IInv, TypeOK, ClientTypeOK
<1>2. /\ cs.action_list_ptr \in Nat
      /\ cs.command \in Commands \cup {NULL} /\ cs.message \in Messages \cup {NULL}
  BY <1>1 DEF ClientStates
<1> QED
  BY <1>1, <1>2

(* What the items and the callbacks leave in the notes. *)
LEMMA NotesKept ==
  ASSUME IInv
  PROVE  /\ Issued \/ Quiet \/ Inspected \/ Ended \/ Ignored \/ Resumed \/ Sent \/ Pressed
               => SameNotes(cs, cs')
         /\ Added => /\ cs'.last_source_file = NULL
                     /\ cs'.last_selected_stack_frame = cs.last_selected_stack_frame
                     /\ cs'.nr_of_stack_frames = cs.nr_of_stack_frames
                     /\ cs'.path_string = cs.path_string
                     /\ cs'.last_iter = cs.last_iter
         /\ Hung => /\ cs'.path_string = NULL
                    /\ cs'.last_source_file = cs.last_source_file
                    /\ cs'.last_selected_stack_frame = cs.last_selected_stack_frame
                    /\ cs'.nr_of_stack_frames = cs.nr_of_stack_frames
                    /\ cs'.last_iter = cs.last_iter
         /\ Listed => /\ cs'.last_selected_stack_frame = 0
                      /\ cs'.nr_of_stack_frames = Len(Frames(cs.message))
                      /\ cs'.last_source_file = cs.last_source_file
                      /\ cs'.path_string = cs.path_string
                      /\ cs'.last_iter = cs.last_iter
         /\ Begun => /\ cs'.last_source_file =
                          (IF Head(toClient).kind = "init" THEN Head(toClient).data
                                                           ELSE cs.last_source_file)
                     /\ cs'.last_selected_stack_frame = cs.last_selected_stack_frame
                     /\ cs'.nr_of_stack_frames = cs.nr_of_stack_frames
                     /\ cs'.path_string = cs.path_string
                     /\ cs'.last_iter = cs.last_iter
         /\ RowChosen => /\ cs'.path_string \in ui.vars.hints
                         /\ cs'.last_source_file = cs.last_source_file
                         /\ cs'.last_selected_stack_frame = cs.last_selected_stack_frame
                         /\ cs'.nr_of_stack_frames = cs.nr_of_stack_frames
                         /\ cs'.last_iter = cs.last_iter
         /\ FrameChosen => /\ \E row \in DOMAIN ui.stack.frames :
                                 cs'.last_selected_stack_frame = AsChar(row - 1)
                           /\ cs'.last_source_file = cs.last_source_file
                           /\ cs'.nr_of_stack_frames = cs.nr_of_stack_frames
                           /\ cs'.path_string = cs.path_string
                           /\ cs'.last_iter = cs.last_iter
<1>1. cs \in ClientStates
  BY EffectTypes
<1> DEFINE x == Head(toClient).data
           n == Len(Frames(cs.message))
<1>2. Issued \/ Quiet \/ Inspected \/ Ended \/ Ignored \/ Resumed \/ Sent \/ Pressed
         => SameNotes(cs, cs')
  BY DEF Issued, Quiet, Inspected, Ended, Ignored, Resumed, Sent, Pressed
<1>3. Added => SameNotes([cs EXCEPT !.last_source_file = NULL], cs')
  BY DEF Added
<1>4. Hung => SameNotes([cs EXCEPT !.path_string = NULL], cs')
  BY DEF Hung
<1>5. Listed => SameNotes([cs EXCEPT !.nr_of_stack_frames = n,
                                     !.last_selected_stack_frame = 0], cs')
  BY DEF Listed, ShowsFrames
<1>6. Begun => \/ /\ Head(toClient).kind = "init"
                  /\ SameNotes([cs EXCEPT !.last_source_file = x], cs')
               \/ Head(toClient).kind # "init" /\ SameNotes(cs, cs')
  BY DEF Begun
<1>7. RowChosen => \E row \in ui.vars.hints :
                      SameNotes([cs EXCEPT !.path_string = row], cs')
  BY DEF RowChosen
<1>8. FrameChosen => \E row \in DOMAIN ui.stack.frames :
         SameNotes([cs EXCEPT !.last_selected_stack_frame = AsChar(row - 1)], cs')
  BY DEF FrameChosen
<1> HIDE DEF x, n
<1>9. Listed => /\ cs'.last_selected_stack_frame = 0
                /\ cs'.nr_of_stack_frames = n
                /\ cs'.last_source_file = cs.last_source_file
                /\ cs'.path_string = cs.path_string
                /\ cs'.last_iter = cs.last_iter
  BY <1>1, <1>5 DEF SameNotes, ClientStates
<1>10. Begun => /\ cs'.last_source_file =
                     (IF Head(toClient).kind = "init" THEN x ELSE cs.last_source_file)
                /\ cs'.last_selected_stack_frame = cs.last_selected_stack_frame
                /\ cs'.nr_of_stack_frames = cs.nr_of_stack_frames
                /\ cs'.path_string = cs.path_string
                /\ cs'.last_iter = cs.last_iter
  BY <1>1, <1>6, NotesChanged DEF SameNotes
<1>11. Added => /\ cs'.last_source_file = NULL
                /\ cs'.last_selected_stack_frame = cs.last_selected_stack_frame
                /\ cs'.nr_of_stack_frames = cs.nr_of_stack_frames
                /\ cs'.path_string = cs.path_string
                /\ cs'.last_iter = cs.last_iter
  BY <1>1, <1>3, NotesChanged DEF SameNotes
<1>12. Hung => /\ cs'.path_string = NULL
               /\ cs'.last_source_file = cs.last_source_file
               /\ cs'.last_selected_stack_frame = cs.last_selected_stack_frame
               /\ cs'.nr_of_stack_frames = cs.nr_of_stack_frames
               /\ cs'.last_iter = cs.last_iter
  BY <1>1, <1>4, NotesChanged DEF SameNotes
<1>13. RowChosen => /\ cs'.path_string \in ui.vars.hints
                    /\ cs'.last_source_file = cs.last_source_file
                    /\ cs'.last_selected_stack_frame = cs.last_selected_stack_frame
                    /\ cs'.nr_of_stack_frames = cs.nr_of_stack_frames
                    /\ cs'.last_iter = cs.last_iter
  BY <1>1, <1>7, NotesChanged DEF SameNotes
<1>14. FrameChosen => /\ \E row \in DOMAIN ui.stack.frames :
                            cs'.last_selected_stack_frame = AsChar(row - 1)
                      /\ cs'.last_source_file = cs.last_source_file
                      /\ cs'.nr_of_stack_frames = cs.nr_of_stack_frames
                      /\ cs'.path_string = cs.path_string
                      /\ cs'.last_iter = cs.last_iter
  BY <1>1, <1>8, NotesChanged DEF SameNotes
<1> QED
  BY <1>2, <1>9, <1>10, <1>11, <1>12, <1>13, <1>14 DEF n, x

(* What they leave in the widgets. *)
LEMMA WidgetsKept ==
  ASSUME IInv
  PROVE  /\ Issued \/ Quiet \/ Ended \/ Begun \/ Ignored \/ Resumed \/ Sent \/ Opened
            \/ Pressed \/ FrameChosen \/ ByEngine \/ Idle
               => ui' = ui
         /\ Hung \/ Inspected \/ RowChosen =>
               /\ ui'.tabs = ui.tabs /\ ui'.current = ui.current
               /\ ui'.arrows = ui.arrows /\ ui'.stack = ui.stack
         /\ Listed =>
               /\ ui'.tabs = ui.tabs /\ ui'.current = ui.current
               /\ ui'.arrows = ui.arrows /\ ui'.vars = ui.vars
               /\ ui'.stack = IF Frames(cs.message) = << >> THEN NoStack ELSE cs.message.data
         /\ Inspected => ui'.vars = VarView(cs.message)
         /\ Hung => ui'.vars = add_fetched(ui.vars, cs.message, cs.path_string)
         /\ RowChosen => /\ ui'.vars.from = ui.vars.from /\ ui'.vars.rows = ui.vars.rows
                         /\ ui'.vars.kids = ui.vars.kids
         /\ Added => /\ ui'.arrows = ui.arrows /\ ui'.stack = ui.stack
                     /\ ui'.vars = ui.vars
<1>1. ui \in Widgets
  BY EffectTypes
<1> DEFINE fetched == add_fetched(ui.vars, cs.message, cs.path_string)
           view    == VarView(cs.message)
           stack   == IF Frames(cs.message) = << >> THEN NoStack ELSE cs.message.data
<1>2. Issued \/ Quiet \/ Ended \/ Begun \/ Ignored \/ Resumed \/ Sent \/ Opened
            \/ Pressed \/ FrameChosen \/ ByEngine \/ Idle
         => ui' = ui
  BY DEF Issued, Quiet, Ended, Begun, Ignored, Resumed, Sent, Opened, Pressed,
         FrameChosen, Got, ByEngine, Replied, Accepted, Continued, Left, Stopped,
         Finished, Died, TakesOne, EngineActs, Idle
<1>3. /\ Hung => ui' = [ui EXCEPT !.vars = fetched]
      /\ Inspected => ui' = [ui EXCEPT !.vars = view]
      /\ Listed => ui' = [ui EXCEPT !.stack = stack]
  BY DEF Hung, Inspected, Listed
<1>4. Added => ui' = IF HasTab(cs.last_source_file) THEN ui
                     ELSE [ui EXCEPT !.tabs = Append(@, [file |-> cs.last_source_file,
                                                         text |-> cs.message.data]),
                                     !.current = cs.last_source_file]
  BY DEF Added, add_source_file
<1>5. RowChosen => \E row \in ui.vars.hints : ui' = [ui EXCEPT !.vars.hints = @ \ {row}]
  BY DEF RowChosen
<1>6. RowChosen => /\ ui'.vars.from = ui.vars.from /\ ui'.vars.rows = ui.vars.rows
                   /\ ui'.vars.kids = ui.vars.kids
                   /\ ui'.tabs = ui.tabs /\ ui'.current = ui.current
                   /\ ui'.arrows = ui.arrows /\ ui'.stack = ui.stack
  BY <1>1, <1>5 DEF Widgets, VarViews
<1>7. Added => /\ ui'.arrows = ui.arrows /\ ui'.stack = ui.stack
               /\ ui'.vars = ui.vars
  BY <1>1, <1>4 DEF Widgets
<1> HIDE DEF fetched, view, stack
<1>8. /\ Hung => /\ ui'.tabs = ui.tabs /\ ui'.current = ui.current
                 /\ ui'.arrows = ui.arrows /\ ui'.stack = ui.stack
                 /\ ui'.vars = fetched
      /\ Inspected => /\ ui'.tabs = ui.tabs /\ ui'.current = ui.current
                      /\ ui'.arrows = ui.arrows /\ ui'.stack = ui.stack
                      /\ ui'.vars = view
      /\ Listed => /\ ui'.tabs = ui.tabs /\ ui'.current = ui.current
                   /\ ui'.arrows = ui.arrows /\ ui'.vars = ui.vars
                   /\ ui'.stack = stack
  BY <1>1, <1>3 DEF Widgets
<1> QED
  BY <1>2, <1>6, <1>7, <1>8 DEF fetched, view, stack

(* The elements of a sequence, *)
LEMMA Elements ==
  ASSUME NEW S, NEW s \in Seq(S), NEW i \in DOMAIN s
  PROVE  s[i] \in S
  OBVIOUS

(* and of the notebook. *)
LEMMA PagesTyped ==
  ASSUME IInv
  PROVE  \A i \in DOMAIN ui.tabs : /\ ui.tabs[i] \in [file : Files, text : Files]
                                   /\ ui.tabs[i].file \in Files
                                   /\ ui.tabs[i].text \in Files
<1> DEFINE P == [file : Files, text : Files]
<1>1. ui.tabs \in Seq(P)
  BY EffectTypes DEF Widgets
<1>2. \A i \in DOMAIN ui.tabs : ui.tabs[i] \in P
  <2> HIDE DEF P
  <2> QED
    BY <1>1, Elements
<1> QED
  BY <1>2

(* A page stays a page. *)
LEMMA PagesStay ==
  ASSUME IInv
  PROVE  /\ Dispatching \/ OnWire \/ ByUser \/ ByEngine \/ Idle =>
               Added \/ ui'.tabs = ui.tabs
         /\ ui'.tabs = ui.tabs => \A f : HasTab(f)' <=> HasTab(f)
<1>1. Issued \/ Quiet \/ Hung \/ Listed \/ Inspected \/ Ended => ui'.tabs = ui.tabs
  BY WidgetsKept
<1>2. TurnedToInnermost \/ TurnedToSelected \/ Parted => ui'.tabs = ui.tabs
  BY DEF TurnedToInnermost, TurnedToSelected, Turning, Parted
<1>3. Begun \/ Ignored \/ Resumed \/ Sent \/ Opened \/ ByUser \/ ByEngine \/ Idle
         => ui'.tabs = ui.tabs
  BY WidgetsKept DEF ByUser
<1>4. ui'.tabs = ui.tabs => \A f : HasTab(f)' <=> HasTab(f)
  BY DEF HasTab
<1> QED
  BY <1>1, <1>2, <1>3, <1>4 DEF Dispatching, OnWire

(* The rows that are shown, but for the items that fill the views. *)
LEMMA RowsStay ==
  ASSUME IInv, NothingShown,
         Dispatching \/ OnWire \/ ByUser \/ ByEngine \/ Idle
  PROVE  Listed \/ Inspected \/ Hung \/ NothingShown'
<1>1. Issued \/ Quiet \/ Ended \/ Begun \/ Ignored \/ Resumed \/ Sent \/ Opened
         \/ ByUser \/ ByEngine \/ Idle \/ Added
         => ui'.stack = ui.stack /\ ui'.vars.rows = ui.vars.rows
  BY WidgetsKept DEF ByUser
<1>2. TurnedToInnermost \/ TurnedToSelected
         => ui'.stack = ui.stack /\ ui'.vars.rows = ui.vars.rows
  BY DEF TurnedToInnermost, TurnedToSelected, Turning
<1>3. Parted => NothingShown'
  BY DEF Parted, NothingShown, NoStack, EmptyVarView
<1> QED
  BY <1>1, <1>2, <1>3 DEF Dispatching, OnWire, NothingShown

(* Nothing can be clicked where nothing is shown. *)
LEMMA NothingToClick ==
  ASSUME IInv, NothingShown
  PROVE  ~ FrameChosen /\ ~ RowChosen
<1>1. FrameChosen => \E row \in DOMAIN ui.stack.frames : TRUE
  BY DEF FrameChosen
<1>2. RowChosen => ui.vars.hints # {}
  BY DEF RowChosen
<1>3. ui.vars.hints = {} /\ DOMAIN ui.stack.frames = {}
  BY DEF IInv, HintsAreRows, NothingShown
<1> QED
  BY <1>1, <1>2, <1>3

(* A new session starts with empty views, *)
LEMMA StartsEmptyKept ==
  ASSUME IInv, NewFiles, Dispatching \/ OnWire \/ ByUser \/ ByEngine \/ Idle
  PROVE  StartsEmpty'
<1> SUFFICES ASSUME cs'.server_state = "INITIAL" /\ cs'.action_list_ptr <= 3
             PROVE  NothingShown'
  BY DEF StartsEmpty
<1>1. cs.action_list_ptr \in Nat
  BY EffectTypes
<1>2. CASE cs.server_state = "INITIAL" /\ cs.action_list_ptr <= 3
  <2>1. NothingShown
    BY <1>2 DEF NewFiles, StartsEmpty
  <2>2. ~ Listed /\ ~ Inspected /\ ~ Hung
    BY <1>2 DEF Listed, Inspected, Hung, At
  <2> QED
    BY <2>1, <2>2, RowsStay
<1>3. CASE ~ (cs.server_state = "INITIAL" /\ cs.action_list_ptr <= 3)
  <2>1. ~ Dispatching
    BY <1>1, <1>3 DEF Dispatching, Issued, Quiet, Added, Hung, Listed, Inspected,
       TurnedToInnermost, TurnedToSelected, Turning, Turned, Ended, GoesOn, At
  <2>2. ~ (Ignored \/ Resumed \/ Sent \/ Parted \/ Opened)
    BY <1>3 DEF Ignored, Resumed, Sent, Parted, Opened, SamePlace, NewClientState
  <2>3. ~ ByUser /\ ~ ByEngine /\ ~ Idle
    BY <1>3 DEF ByUser, Pressed, FrameChosen, RowChosen, SamePlace, ByEngine, Replied,
       Accepted, Continued, Left, Stopped, Finished, Died, TakesOne, EngineActs, Idle
  <2>4. Begun /\ Head(toClient).kind = "init" /\ ui' = ui
    BY <2>1, <2>2, <2>3, WidgetsKept DEF OnWire, Begun
  <2>5. toClient # << >> /\ toClient[1].kind = "init" /\ 1 \in DOMAIN toClient
    BY <2>4, EffectTypes DEF Begun, Got
  <2>6. NothingShown
    BY <2>5 DEF NewFiles, GreetsFirst
  <2> QED
    BY <2>4, <2>6 DEF NothingShown
<1> QED
  BY <1>2, <1>3

(* its greeting is the first document, *)
LEMMA GreetsFirstKept ==
  ASSUME IInv, NewFiles, Dispatching \/ OnWire \/ ByUser \/ ByEngine \/ Idle
  PROVE  GreetsFirst'
<1>1. toClient \in Seq(Messages)
  BY EffectTypes
<1>2. ASSUME toClient' = toClient PROVE GreetsFirst'
  <2> SUFFICES ASSUME NEW i \in DOMAIN toClient, toClient[i].kind = "init"
               PROVE  i = 1 /\ ~ InList' /\ NothingShown'
    BY <1>2 DEF GreetsFirst
  <2>1. i = 1 /\ ~ InList /\ NothingShown
    BY DEF NewFiles, GreetsFirst
  <2>2. ~ Dispatching
    BY <2>1 DEF Dispatching, Issued, Quiet, Added, Hung, Listed, Inspected, InList,
       TurnedToInnermost, TurnedToSelected, Turning, Ended, GoesOn, ItemStep, IInv, Reading
  <2>3. ~ FrameChosen /\ ~ RowChosen
    BY <2>1, NothingToClick
  <2>4. NothingShown'
    BY <2>1, <2>2, RowsStay DEF Dispatching
  <2>5. ~ Begun /\ ~ Resumed /\ ~ Ignored
    BY <1>1, <1>2 DEF Begun, Resumed, Ignored, Got
  <2>6. ~ InList'
    BY <2>1, <2>2, <2>3, <2>5 DEF InList, ByUser, Pressed, SamePlace, OnWire, Sent,
       Parted, Opened, NewClientState, ByEngine, Replied, Accepted, Continued, Left,
       Stopped, Finished, Died, TakesOne, EngineActs, Idle
  <2> QED
    BY <2>1, <2>4, <2>6
<1>3. ASSUME NEW m \in Messages, toClient' = Append(toClient, m), m.kind # "init",
             cs' = cs, ui' = ui
      PROVE  GreetsFirst'
  <2>1. \A i \in DOMAIN toClient' : toClient'[i].kind = "init" =>
           i \in DOMAIN toClient /\ toClient[i].kind = "init"
    BY <1>1, <1>3
  <2> QED
    BY <1>3, <2>1 DEF NewFiles, GreetsFirst, InList, NothingShown
<1>4. ASSUME toClient # << >>, toClient' = Tail(toClient)
      PROVE  GreetsFirst'
  <2>1. \A i \in DOMAIN toClient' : i + 1 \in DOMAIN toClient /\ i + 1 # 1
                                    /\ toClient'[i] = toClient[i + 1]
    BY <1>1, <1>4
  <2> QED
    BY <2>1 DEF NewFiles, GreetsFirst
<1>5. CASE Dispatching
  BY <1>2, <1>5 DEF Dispatching, Issued, Quiet, Added, Hung, Listed, Inspected,
     TurnedToInnermost, TurnedToSelected, Turning, Ended, GoesOn, ItemStep
<1>6. CASE Begun \/ Ignored \/ Resumed
  BY <1>4, <1>6 DEF Begun, Ignored, Resumed, Got
<1>7. CASE Sent \/ ByUser \/ Idle
  BY <1>2, <1>7 DEF Sent, ByUser, Pressed, FrameChosen, RowChosen, Clicked, Idle
<1>8. CASE Parted
  BY <1>8 DEF Parted, GreetsFirst
<1>9. CASE Opened
  <2>1. NothingShown' /\ ~ InList' /\ DOMAIN toClient' = {1}
    BY <1>9 DEF Opened, IInv, RowsOnlyWhenConnected, NothingShown, InList, NewClientState
  <2> QED
    BY <2>1 DEF GreetsFirst
<1>10. CASE ByEngine
  <2>1. UNCHANGED <<cs, ui>>
    BY <1>10 DEF ByEngine, Replied, Accepted, Continued, Left, Stopped, Finished, Died,
       TakesOne, EngineActs
  <2>2. \/ toClient' = toClient
        \/ \E m \in Messages : toClient' = Append(toClient, m) /\ m.kind # "init"
    BY <1>10 DEF ByEngine, Replied, Answers, Accepted, Continued, Left, Stopped,
       Finished, Died
  <2> QED
    BY <1>2, <1>3, <2>1, <2>2
<1> QED
  BY <1>5, <1>6, <1>7, <1>8, <1>9, <1>10 DEF OnWire

(* and the file it announces is the one that is noted with its page there. *)
LEMMA NamesNewFileKept ==
  ASSUME IInv, NewFiles, Dispatching \/ OnWire \/ ByUser \/ ByEngine \/ Idle
  PROVE  NamesNewFile'
<1> SUFFICES ASSUME cs'.last_source_file # NULL /\ HasTab(cs.last_source_file)',
                    ~ (cs'.server_state = "INITIAL" /\ cs'.action_list_ptr <= 3)
             PROVE  FALSE
  BY DEF NamesNewFile
<1> DEFINE f == cs'.last_source_file
<1>1. cs.action_list_ptr \in Nat
  BY EffectTypes
<1>2. ~ Added
  BY NotesKept
<1>3. HasTab(f)
  <2>1. ui'.tabs = ui.tabs
    BY <1>2, PagesStay
  <2> QED
    BY <2>1 DEF HasTab
<1>4. ~ TurnedToInnermost /\ ~ TurnedToSelected
  <2>1. ASSUME NEW frame, NEW checks, NEW arrows, Turned(frame, checks, arrows),
               cs.server_state # "INITIAL" \/ cs.action_list_ptr > 3
        PROVE  FALSE
    <3>1. f = cs.last_source_file /\ f # NULL
      <4>1. CASE f = cs.last_source_file
        BY <4>1
      <4>2. CASE f # cs.last_source_file
        <5>1. f = Frames(cs.message)[frame] /\ ~ HasTab(Frames(cs.message)[frame])
          BY <2>1, <4>2 DEF Turned
        <5> HIDE DEF f
        <5> QED
          BY <1>3, <5>1
      <4> QED
        BY <4>1, <4>2
    <3> HIDE DEF f
    <3> QED
      BY <1>1, <1>3, <2>1, <3>1 DEF NewFiles, NamesNewFile
  <2>2. cs.server_state # "INITIAL" \/ cs.action_list_ptr > 3
           => ~ TurnedToInnermost /\ ~ TurnedToSelected
    BY <2>1 DEF TurnedToInnermost, TurnedToSelected
  <2> QED
    BY <1>1, <2>2 DEF TurnedToInnermost, TurnedToSelected, At
<1>5. ASSUME f = cs.last_source_file
      PROVE  cs.server_state = "INITIAL" /\ cs.action_list_ptr <= 3
  BY <1>3, <1>5 DEF NewFiles, NamesNewFile
<1>6. ~ (Issued \/ Quiet \/ Hung \/ Listed \/ Inspected \/ Ended)
  <2>1. Issued \/ Quiet \/ Hung \/ Listed \/ Inspected \/ Ended
           => f = cs.last_source_file
    BY NotesKept DEF SameNotes
  <2> QED
    BY <1>1, <1>5, <2>1 DEF Issued, Quiet, Hung, Listed, Inspected, Ended, GoesOn, At
<1>7. ~ Begun
  <2>1. Begun => f = IF Head(toClient).kind = "init" THEN Head(toClient).data
                                                     ELSE cs.last_source_file
    BY NotesKept
  <2> QED
    BY <1>5, <2>1 DEF Begun, InList
<1>8. ~ (Ignored \/ Resumed \/ Sent \/ Parted \/ Opened)
  <2>1. Ignored \/ Resumed \/ Sent => f = cs.last_source_file
    BY NotesKept DEF SameNotes
  <2> QED
    BY <1>5, <2>1 DEF Ignored, Resumed, InList, Sent, Parted, Opened, SamePlace,
                      NewClientState
<1>9. ~ ByUser
  <2>1. ByUser => f = cs.last_source_file
    BY NotesKept DEF ByUser, SameNotes
  <2>2. ByUser => NothingShown
    BY <1>5, <2>1 DEF NewFiles, StartsEmpty
  <2> QED
    BY <1>5, <2>1, <2>2, NothingToClick DEF ByUser, Pressed, SamePlace
<1>10. ~ ByEngine /\ ~ Idle
  BY <1>5 DEF ByEngine, Replied, Accepted, Continued, Left, Stopped, Finished, Died,
       TakesOne, EngineActs, Idle
<1> QED
  BY <1>2, <1>4, <1>6, <1>7, <1>8, <1>9, <1>10 DEF Dispatching, OnWire

(* This holds in every session, *)
LEMMA NewFilesAlways == Spec => []NewFiles
<1>1. Init => NewFiles
  BY DEF Init, ClientInit, NewClientState, NewFiles, NamesNewFile, StartsEmpty, GreetsFirst
<1>2. IInv /\ NewFiles /\ [Next]_vars => NewFiles'
  BY StepEffects, StartsEmptyKept, GreetsFirstKept, NamesNewFileKept DEF NewFiles
<1> QED
  BY <1>1, <1>2, Invariance, PTL DEF Spec

(* The only command that asks for a source is that of an item, for what is *)
(* noted.                                                                  *)
LEMMA SourceIsAsked ==
  ASSUME IInv, Dispatching \/ OnWire \/ ByUser \/ ByEngine \/ Idle,
         cs'.command # NULL, cs'.command # cs.command, cs'.command.verb = "source"
  PROVE  /\ At("INITIAL", {2, 8}) \/ At("BREAK", {5}) \/ At("SELECT_STACK", {3})
         /\ cs'.command.arg = cs.last_source_file
<1>1. Issued
  BY DEF Dispatching, Quiet, Added, Hung, Listed, Inspected, GoesOn, Turning,
     TurnedToInnermost, TurnedToSelected, Ended, OnWire, Begun, Ignored, Resumed, Got,
     Sent, Parted, Opened, NewClientState, ByUser, Pressed, FrameChosen, RowChosen,
     ButtonVerbs, ContinueVerbs, EndVerbs, ByEngine, Replied, Accepted, Continued, Left,
     Stopped, Finished, Died, TakesOne, EngineActs, Idle
<1>2. /\ Asking(cs.command)' /\ cs'.last_source_file = cs.last_source_file
      /\ cs'.server_state = cs.server_state
      /\ cs'.action_list_ptr = cs.action_list_ptr + 1
      /\ cs.action_list_ptr \in Nat
      /\ \/ At("INITIAL", {2, 4, 5, 8, 10, 12} \cup 15 .. 21)
         \/ At("BREAK", {2, 5, 7, 9}) \/ At("STOPPED", {2}) \/ At("SELECT_STACK", {3, 5, 7})
  BY <1>1, EffectTypes DEF Issued, SameNotes
<1>3. cs'.command.arg = cs.last_source_file
  BY <1>2 DEF Asking
<1>4. Awaited' = "source"
  BY <1>2 DEF Asking, InList, At
<1>5. \/ At("INITIAL", {3, 9})' \/ At("BREAK", {6})' \/ At("SELECT_STACK", {4})'
  BY <1>4 DEF Awaited
<1>6. At("INITIAL", {2, 8}) \/ At("BREAK", {5}) \/ At("SELECT_STACK", {3})
  BY <1>2, <1>5 DEF At
<1> QED
  BY <1>3, <1>6

(* No file is fetched twice, but for the one a new session announces,      *)
(* whatever is clicked in between.                                         *)
THEOREM PagesAreFetchedOnce == Spec => FetchesOnlyNewFiles
<1> DEFINE Fetches == /\ cs'.command # NULL /\ cs'.command # cs.command
                      /\ cs'.command.verb = "source"
                      => \/ ~ HasTab(cs'.command.arg)
                         \/ cs.server_state = "INITIAL" /\ cs.action_list_ptr = 2
<1>1. IInv /\ NewFiles /\ [Next]_vars => Fetches
  <2> SUFFICES ASSUME IInv, NewFiles, [Next]_vars,
                      cs'.command # NULL, cs'.command # cs.command,
                      cs'.command.verb = "source", HasTab(cs'.command.arg)
               PROVE  cs.server_state = "INITIAL" /\ cs.action_list_ptr = 2
    OBVIOUS
  <2>1. /\ At("INITIAL", {2, 8}) \/ At("BREAK", {5}) \/ At("SELECT_STACK", {3})
        /\ cs'.command.arg = cs.last_source_file
    BY StepEffects, SourceIsAsked
  <2>2. cs.last_source_file # NULL
    <3>2. \A i \in DOMAIN ui.tabs : ui.tabs[i].file \in Files
      BY PagesTyped
    <3>3. ~ HasTab(NULL)
      BY <3>2, WireAssumption DEF HasTab
    <3> QED
      BY <2>1, <3>3
  <2>3. cs.server_state = "INITIAL" /\ cs.action_list_ptr <= 3
    BY <2>1, <2>2 DEF NewFiles, NamesNewFile
  <2> QED
    BY <2>1, <2>3 DEF At
<1>2. IInv /\ NewFiles /\ [Next]_vars => [Fetches]_vars
  BY <1>1
<1> QED
  BY <1>2, Invariance, NewFilesAlways, PTL DEF Spec, FetchesOnlyNewFiles
-----------------------------------------------------------------------------
(***************************************************************************)
(* With a patient user, what is under way is what the place waits for.     *)
(***************************************************************************)
Answering(m) ==
    /\ Awaited = "source" =>
          \/ m.kind = "error"
          \/ m.kind = "source" /\ m.data = cs.last_source_file
    /\ Awaited = "stack_get" => m.kind \in {"error", "stack"}
    /\ Awaited = "context_get" => m.kind \in {"error", "context"}
    /\ Awaited = "property_get" =>
          \/ m.kind = "error"
          \/ m.kind = "property" /\ m.data = cs.path_string

Conversation ==
    conn = "open" =>
       /\ cs.command # NULL => Asking(cs.command)
       /\ toEngine # << >> => Asking(Head(toEngine))
       /\ engine.phase = "running" /\ InList => Awaited \in ContinueVerbs
       /\ toClient # << >> /\ InList => Answering(Head(toClient))
       /\ dispatching => Answering(cs.message)

(* What is under way before and after a step. *)
LEMMA Rhythm ==
  ASSUME IInv, Turns, conn = "open"
  PROVE  /\ Dispatching =>
               /\ InList /\ cs.message \in Messages /\ dispatching /\ conn' = "open"
               /\ cs'.message = cs.message
               /\ toEngine' = << >> /\ toClient' = << >>
               /\ engine' = engine /\ engine.phase # "running"
               /\ Issued \/ cs'.command = NULL
         /\ Begun \/ Ignored \/ Resumed =>
               /\ conn' = "open"
               /\ toEngine' = << >> /\ toClient # << >> /\ toClient' = << >>
               /\ Head(toClient) \in Messages /\ cs'.message = Head(toClient)
               /\ engine' = engine /\ engine.phase # "running"
               /\ cs'.command = NULL
         /\ Sent =>
               /\ conn' = "open" /\ ~ dispatching'
               /\ toEngine' = << cs.command >> /\ Head(toEngine') = cs.command
               /\ toEngine' # << >>
               /\ toClient = << >> /\ toClient' = << >>
               /\ engine' = engine /\ engine.phase # "running"
               /\ cs'.command = NULL
         /\ ~ Opened /\ (Parted => conn' # "open")
         /\ Patient /\ ByUser =>
               /\ Settled /\ ~ dispatching' /\ engine' = engine /\ conn' = "open"
               /\ toEngine' = << >> /\ toClient' = << >>
         /\ ByEngine =>
               UNCHANGED <<conn, dispatching, cs, ui>>
         /\ Replied \/ Accepted \/ Continued \/ Left =>
               /\ ~ dispatching /\ cs.command = NULL
               /\ toEngine # << >> /\ Head(toEngine) = Asked /\ toEngine' = << >>
               /\ toClient = << >>
         /\ Stopped \/ Finished =>
               /\ ~ dispatching /\ cs.command = NULL
               /\ toEngine = << >> /\ toEngine' = << >> /\ toClient = << >>
<1>1. /\ toClient \in Seq(Messages) /\ toEngine \in Seq(Commands)
      /\ cs.command \in Commands \cup {NULL} /\ OnePlace /\ (dispatching => Silent)
  BY EffectTypes DEF Turns
<1>2. Dispatching =>
         /\ InList /\ cs.message \in Messages /\ dispatching /\ conn' = "open"
         /\ cs'.message = cs.message
         /\ toEngine' = << >> /\ toClient' = << >>
         /\ engine' = engine /\ engine.phase # "running"
         /\ Issued \/ cs'.command = NULL
  BY <1>1 DEF Dispatching, Issued, Quiet, Added, Hung, Listed, Inspected, GoesOn,
     TurnedToInnermost, TurnedToSelected, Turning, Ended, ItemStep, Silent, IInv, Reading,
     InList
<1>3. Begun \/ Ignored \/ Resumed =>
         /\ conn' = "open"
         /\ toEngine' = << >> /\ toClient # << >> /\ toClient' = << >>
         /\ Head(toClient) \in Messages /\ cs'.message = Head(toClient)
         /\ engine' = engine /\ engine.phase # "running"
         /\ cs'.command = NULL
  <2> SUFFICES ASSUME Begun \/ Ignored \/ Resumed
               PROVE  /\ conn' = "open"
                      /\ toEngine' = << >> /\ toClient # << >>
                      /\ toClient' = << >>
                      /\ Head(toClient) \in Messages /\ cs'.message = Head(toClient)
                      /\ engine' = engine /\ engine.phase # "running"
                      /\ cs'.command = NULL
    OBVIOUS
  <2>1. /\ toClient # << >> /\ toClient' = Tail(toClient) /\ engine' = engine
        /\ toEngine' = toEngine /\ cs'.command = cs.command /\ conn' = conn
        /\ cs'.message = Head(toClient)
    BY DEF Begun, Ignored, Resumed, Got
  <2>2. /\ Head(toClient) \in Messages /\ Tail(toClient) = << >>
    BY <1>1, <2>1 DEF OnePlace
  <2> QED
    BY <1>1, <2>1, <2>2 DEF OnePlace
<1>4. Sent =>
         /\ conn' = "open" /\ ~ dispatching'
         /\ toEngine' = << cs.command >> /\ Head(toEngine') = cs.command
         /\ toEngine' # << >>
         /\ toClient = << >> /\ toClient' = << >>
         /\ engine' = engine /\ engine.phase # "running"
         /\ cs'.command = NULL
  <2> SUFFICES ASSUME Sent
               PROVE  /\ conn' = "open" /\ ~ dispatching'
                      /\ toEngine' = << cs.command >> /\ Head(toEngine') = cs.command
                      /\ toEngine' # << >>
                      /\ toClient = << >> /\ toClient' = << >>
                      /\ engine' = engine /\ engine.phase # "running"
                      /\ cs'.command = NULL
    OBVIOUS
  <2>1. /\ cs.command # NULL /\ toEngine' = Append(toEngine, cs.command)
        /\ cs'.command = NULL /\ conn' = "open" /\ ~ dispatching'
        /\ UNCHANGED <<engine, toClient>>
    BY DEF Sent, SamePlace
  <2>2. toEngine = << >> /\ toClient = << >> /\ engine.phase # "running"
    BY <1>1, <2>1 DEF OnePlace
  <2> QED
    BY <2>1, <2>2
<1>5. ~ Opened /\ (Parted => conn' # "open")
  BY DEF Opened, Parted
<1>6. Patient /\ ByUser =>
         /\ Settled /\ ~ dispatching' /\ engine' = engine /\ conn' = "open"
         /\ toEngine' = << >> /\ toClient' = << >>
  BY DEF ByUser, Pressed, FrameChosen, RowChosen, Clicked, Settled
<1>7. ByEngine => UNCHANGED <<conn, dispatching, cs, ui>>
  BY DEF ByEngine, Replied, Accepted, Continued, Left, Stopped, Finished, Died,
     TakesOne, EngineActs
<1>8. Replied \/ Accepted \/ Continued \/ Left =>
         /\ ~ dispatching /\ cs.command = NULL
         /\ toEngine # << >> /\ Head(toEngine) = Asked /\ toEngine' = << >>
         /\ toClient = << >>
  <2> SUFFICES ASSUME TakesOne
               PROVE  /\ ~ dispatching /\ cs.command = NULL
                      /\ toEngine # << >> /\ Head(toEngine) = Asked /\ toEngine' = << >>
                      /\ toClient = << >>
    BY DEF Replied, Accepted, Continued, Left
  <2>1. toEngine # << >> /\ toEngine' = << >>
    BY <1>1 DEF TakesOne, OnePlace
  <2> QED
    BY <1>1, <2>1 DEF OnePlace, Asked, Silent
<1>9. Stopped \/ Finished =>
         /\ ~ dispatching /\ cs.command = NULL
         /\ toEngine = << >> /\ toEngine' = << >> /\ toClient = << >>
  BY <1>1 DEF Stopped, Finished, OnePlace, Silent
<1> QED
  BY <1>2, <1>3, <1>4, <1>5, <1>6, <1>7, <1>8, <1>9

(* An item leaves a place that waits for nothing the document is not. *)
LEMMA AnsweringKept ==
  ASSUME IInv, Turns, conn = "open", Dispatching, dispatching', Answering(cs.message)
  PROVE  Answering(cs.message)'
<1>1. cs'.message = cs.message /\ cs.action_list_ptr \in Nat
  BY Rhythm, EffectTypes
<1>2. CASE Quiet
  <2>1. \/ /\ cs.action_list_ptr = 1 /\ cs'.action_list_ptr = 2
           /\ cs'.server_state = cs.server_state
        \/ At("INITIAL", {23})' \/ At("BREAK", {12})'
           \/ At("SELECT_STACK", {10})' \/ At("FETCH_PROPERTY", {4})'
        \/ At("INITIAL", {15, 19})'
    BY <1>1, <1>2 DEF Quiet, GoesOn, At
  <2>2. Awaited' \in {Awaited, "none", "breakpoint_set"}
    BY <2>1 DEF Awaited, At
  <2>3. SameNotes(cs, cs')
    BY <1>2, NotesKept
  <2> QED
    BY <1>1, <2>2, <2>3 DEF Answering, SameNotes
<1>3. CASE Listed
  <2>1. Awaited = "stack_get" /\ Awaited' = "stack_get"
    BY <1>3 DEF Listed, GoesOn, At, Awaited
  <2> QED
    BY <1>1, <2>1 DEF Answering
<1>4. CASE Added \/ Hung \/ Inspected
  <2>1. Awaited' = "none"
    BY <1>4 DEF Added, Hung, Inspected, GoesOn, At, Awaited
  <2> QED
    BY <2>1 DEF Answering
<1>5. CASE TurnedToInnermost \/ TurnedToSelected
  <2>1. /\ cs'.server_state = cs.server_state
        /\ cs'.action_list_ptr \in {cs.action_list_ptr + 1, cs.action_list_ptr + 5}
        /\ \/ At("INITIAL", {7, 11}) \/ At("BREAK", {4, 8}) \/ At("SELECT_STACK", {2, 6})
        /\ cs'.action_list_ptr # cs.action_list_ptr + 1 =>
              At("INITIAL", {7}) \/ At("BREAK", {4}) \/ At("SELECT_STACK", {2})
    BY <1>1, <1>5 DEF TurnedToInnermost, TurnedToSelected, Turning, Turned
  <2>2. Awaited' = "none"
    BY <2>1 DEF At, Awaited
  <2> QED
    BY <2>2 DEF Answering
<1>6. ~ Issued /\ ~ Ended
  BY DEF Issued, Ended
<1> QED
  BY <1>2, <1>3, <1>4, <1>5, <1>6 DEF Dispatching

(* A reply to the command of the place is what the place waits for. *)
LEMMA ReplyAnswers ==
  ASSUME InList, NEW c, Asking(c), NEW m, Answers(c, m)
  PROVE  Answering(m)
  BY DEF Asking, Answers, Answering

(* The click is the command the list waits for, *)
LEMMA ClickAsking ==
  ASSUME IInv, ByUser, ~ InList, cs.command = NULL
  PROVE  cs'.command # NULL => Asking(cs.command)'
<1>1. CASE Pressed
  BY <1>1 DEF Pressed, SamePlace, InList, Asking, ButtonVerbs, ContinueVerbs, EndVerbs
<1>2. CASE FrameChosen
  <2>1. Awaited' = "stack_get"
    BY <1>2 DEF FrameChosen, Awaited, At
  <2> QED
    BY <1>2, <2>1 DEF FrameChosen, InList, Asking
<1>3. CASE RowChosen
  <2>1. Awaited' = "property_get"
    BY <1>3 DEF RowChosen, Awaited, At
  <2>2. cs'.command.verb = "property_get" /\ cs'.command.arg = cs'.path_string
    BY <1>3, EffectTypes, NotesChanged DEF RowChosen, SameNotes
  <2> QED
    BY <1>3, <2>1, <2>2 DEF RowChosen, InList, Asking
<1> QED
  BY <1>1, <1>2, <1>3 DEF ByUser

(* and no step, from whatever side, brings the two apart. *)
LEMMA ConversationKept ==
  ASSUME IInv, Turns, Patient, Conversation,
         Dispatching \/ OnWire \/ ByUser \/ ByEngine \/ Idle
  PROVE  Conversation'
<1> SUFFICES ASSUME conn' = "open" PROVE Conversation'
  BY DEF Conversation
<1>1. CASE conn # "open"
  <2>1. CASE Opened
    BY <2>1 DEF Opened, Conversation, InList, NewClientState
  <2>2. CASE ~ Opened
    BY <1>1, <2>2 DEF Dispatching, Issued, Quiet, Added, Hung, Listed, Inspected, GoesOn,
       TurnedToInnermost, TurnedToSelected, Turning, Ended, ItemStep, OnWire, Begun,
       Ignored, Resumed, Got, Sent, Parted, ByUser, Pressed, FrameChosen, RowChosen, Clicked,
       ByEngine, Replied, Accepted, Continued, Left, Stopped, Finished, Died, TakesOne,
       EngineActs, Idle
  <2> QED
    BY <2>1, <2>2
<1>2. CASE conn = "open"
  <2>1. CASE Dispatching
    <3>1. /\ toEngine' = << >> /\ toClient' = << >>
          /\ engine'.phase # "running"
          /\ Answering(cs.message)
          /\ Issued \/ cs'.command = NULL
      BY <1>2, <2>1, Rhythm DEF Conversation
    <3>2. dispatching' => Answering(cs.message)'
      BY <1>2, <2>1, <3>1, AnsweringKept
    <3>3. cs'.command # NULL => Asking(cs.command)'
      BY <3>1 DEF Issued
    <3> QED
      BY <3>1, <3>2, <3>3 DEF Conversation
  <2>2. CASE Begun \/ Ignored \/ Resumed
    <3>1. /\ toEngine' = << >> /\ toClient' = << >> /\ cs'.message = Head(toClient)
          /\ toClient # << >>
          /\ engine'.phase # "running" /\ cs'.command = NULL
      BY <1>2, <2>2, Rhythm DEF Begun, Ignored, Resumed, Got
    <3>2. dispatching' => Answering(cs.message)'
      <4>1. CASE Begun
        <5>1. Awaited' = "none"
          BY <4>1 DEF Begun, Awaited, At
        <5> QED
          BY <5>1 DEF Answering
      <4>2. CASE Resumed
        <5>1. InList /\ SameNotes(cs, cs') /\ Awaited' = Awaited
          BY <4>2 DEF Resumed, Awaited, At
        <5>2. Answering(Head(toClient))
          BY <1>2, <3>1, <5>1 DEF Conversation
        <5> QED
          BY <3>1, <5>1, <5>2 DEF Answering, SameNotes
      <4>3. Ignored => ~ dispatching'
        BY DEF Ignored
      <4> QED
        BY <2>2, <4>1, <4>2, <4>3
    <3> QED
      BY <3>1, <3>2 DEF Conversation
  <2>3. CASE Sent
    <3>1. /\ cs'.command = NULL /\ Head(toEngine') = cs.command /\ toClient' = << >>
          /\ engine'.phase # "running" /\ ~ dispatching'
      BY <1>2, <2>3, Rhythm
    <3>2. Asking(cs.command) /\ SamePlace /\ SameNotes(cs, cs')
      BY <1>2, <2>3 DEF Sent, Conversation
    <3>3. Awaited' = Awaited
      BY <3>2 DEF SamePlace, Awaited, At
    <3>4. Asking(Head(toEngine))'
      BY <3>1, <3>2, <3>3 DEF SamePlace, SameNotes, Asking, InList
    <3> QED
      BY <3>1, <3>4 DEF Conversation
  <2>4. CASE Parted
    BY <1>2, <2>4, Rhythm
  <2>5. CASE ByUser
    <3>1. /\ ~ InList /\ cs.command = NULL /\ engine'.phase # "running"
          /\ ~ dispatching' /\ toEngine' = << >> /\ toClient' = << >>
      BY <1>2, <2>5, Rhythm DEF Settled, InList
    <3> QED
      BY <2>5, <3>1, ClickAsking DEF Conversation
  <2>6. CASE Replied \/ Accepted \/ Continued \/ Left
    <3>1. /\ UNCHANGED <<conn, dispatching, cs, ui>>
          /\ ~ dispatching /\ cs.command = NULL
          /\ toEngine # << >> /\ Head(toEngine) = Asked /\ toEngine' = << >>
          /\ toClient = << >>
      BY <1>2, <2>6, Rhythm DEF ByEngine
    <3>2. Asking(Asked) /\ Awaited' = Awaited /\ InList' = InList
      BY <1>2, <3>1 DEF Conversation, Awaited, At, InList
    <3>3. ASSUME NEW m, toClient' = Append(toClient, m)
          PROVE  toClient' # << >> /\ Head(toClient') = m
      BY <3>1, <3>3
    <3>4. engine'.phase = "running" /\ InList => Awaited \in ContinueVerbs
      BY <2>6, <3>2 DEF Replied, Accepted, Continued, Left, TakesOne, Asking
    <3>5. toClient' # << >> /\ InList => Answering(Head(toClient'))
      <4>1. CASE Replied
        <5>1. PICK m \in Messages : toClient' = Append(toClient, m) /\ Answers(Asked, m)
          BY <4>1 DEF Replied
        <5> QED
          BY <3>2, <3>3, <5>1, ReplyAnswers
      <4>2. CASE Accepted
        <5>1. InList => Awaited \in {"breakpoint_set", "feature_set"}
          BY <3>2, <4>2 DEF Accepted, Asking
        <5> QED
          BY <5>1 DEF Answering
      <4>3. CASE Continued
        BY <3>1, <4>3 DEF Continued
      <4>4. CASE Left
        <5>1. Awaited \notin EndVerbs
          BY DEF Awaited, EndVerbs
        <5> QED
          BY <3>2, <4>4, <5>1 DEF Left, Asking
      <4> QED
        BY <2>6, <4>1, <4>2, <4>3, <4>4
    <3>6. toClient' # << >> /\ InList' => Answering(Head(toClient))'
      BY <3>1, <3>2, <3>5 DEF Answering
    <3> QED
      BY <3>1, <3>2, <3>4, <3>6 DEF Conversation
  <2>7. CASE Stopped \/ Finished
    <3>1. /\ UNCHANGED <<conn, dispatching, cs, ui>>
          /\ ~ dispatching /\ cs.command = NULL
          /\ toEngine' = << >> /\ engine'.phase # "running" /\ engine.phase = "running"
      BY <1>2, <2>7, Rhythm DEF ByEngine, Stopped, Finished
    <3>2. InList' => Awaited' \in ContinueVerbs
      BY <1>2, <3>1 DEF Conversation, Awaited, At, InList
    <3>3. InList' => Answering(Head(toClient))'
      BY <3>2 DEF Answering, ContinueVerbs
    <3> QED
      BY <3>1, <3>3 DEF Conversation
  <2>8. CASE Died \/ Idle
    <3>1. /\ UNCHANGED <<conn, dispatching, cs, toEngine, toClient>>
          /\ engine'.phase = "running" => engine.phase = "running"
      BY <2>8 DEF Died, Idle, EngineActs
    <3>2. Awaited' = Awaited /\ InList' = InList
      BY <3>1 DEF Awaited, At, InList
    <3> QED
      BY <3>1, <3>2 DEF Conversation, Asking, Answering
  <2>9. ~ Opened
    BY <1>2, Rhythm
  <2> QED
    BY <2>1, <2>2, <2>3, <2>4, <2>5, <2>6, <2>7, <2>8, <2>9 DEF OnWire, ByEngine
<1> QED
  BY <1>1, <1>2

(* What is under way belongs together in every session of a patient user.  *)
LEMMA ConversationAlways ==
  ASSUME Patient
  PROVE  Spec => []Conversation
<1>1. Init => Conversation
  BY DEF Init, ClientInit, Conversation
<1>2. IInv /\ Turns /\ Conversation /\ [Next]_vars => Conversation'
  BY StepEffects, ConversationKept
<1> QED
  BY <1>1, <1>2, Invariance, TakingTurns, PTL DEF Spec

(* A page comes with the text that was asked for, *)
LEMMA PagesKept ==
  ASSUME IInv, Conversation, PageShowsItsFile,
         Dispatching \/ OnWire \/ ByUser \/ ByEngine \/ Idle
  PROVE  PageShowsItsFile'
<1> DEFINE P == [file : Files, text : Files]
<1>1. CASE ~ Added
  BY <1>1, PagesStay DEF PageShowsItsFile
<1>2. CASE Added
  <2> DEFINE f == cs.last_source_file
             t == cs.message.data
             page == [file |-> f, text |-> t]
  <2>1. f = t
    <3>1. dispatching /\ conn = "open" /\ Awaited = "source" /\ cs.message.kind = "source"
      BY <1>2 DEF Added, GoesOn, ItemStep, IInv, Reading, Awaited, At
    <3> QED
      BY <3>1 DEF Conversation, Answering
  <2>2. ui' = IF HasTab(f) THEN ui ELSE [ui EXCEPT !.tabs = Append(@, page), !.current = f]
    BY <1>2 DEF Added, add_source_file
  <2>3. ui \in Widgets /\ ui.tabs \in Seq(P)
    BY EffectTypes DEF Widgets
  <2>4. page \in P /\ page.file = f /\ page.text = t
    <3>1. f \in Files
      BY <1>2, EffectTypes, FieldTypes DEF Added
    <3> QED
      BY <2>1, <3>1
  <2>5. CASE HasTab(f)
    BY <2>2, <2>5 DEF PageShowsItsFile
  <2>6. CASE ~ HasTab(f)
    <3> HIDE DEF page, f, t, P
    <3>1. ui'.tabs = Append(ui.tabs, page)
      BY <2>2, <2>3, <2>6 DEF Widgets
    <3>2. \A i \in DOMAIN ui'.tabs :
             \/ ui'.tabs[i] = page
             \/ i \in DOMAIN ui.tabs /\ ui'.tabs[i] = ui.tabs[i]
      BY <2>3, <2>4, <3>1
    <3> QED
      BY <2>1, <2>4, <3>2 DEF PageShowsItsFile
  <2> QED
    BY <2>5, <2>6
<1> QED
  BY <1>1, <1>2

(* so no page is labelled with one file and shows another, *)
THEOREM PagesShowTheirFiles ==
  ASSUME Patient
  PROVE  Spec => []PageShowsItsFile
<1>1. Init => PageShowsItsFile
  BY DEF Init, ClientInit, PageShowsItsFile
<1>2. IInv /\ Conversation /\ PageShowsItsFile /\ [Next]_vars => PageShowsItsFile'
  BY StepEffects, PagesKept
<1> QED
  BY <1>1, <1>2, Invariance, ConversationAlways, PTL DEF Spec

(* and children come for the row they were asked for, *)
LEMMA KidsKept ==
  ASSUME IInv, Conversation, KidsUnderTheirParent,
         Dispatching \/ OnWire \/ ByUser \/ ByEngine \/ Idle
  PROVE  KidsUnderTheirParent'
<1>1. ui \in Widgets /\ ui.vars \in VarViews
  BY EffectTypes DEF Widgets
<1>2. CASE Hung
  <2> DEFINE m == cs.message
             row == cs.path_string
  <2>1. /\ dispatching /\ conn = "open" /\ Awaited = "property_get"
        /\ ui'.vars = add_fetched(ui.vars, m, row)
    BY <1>2, WidgetsKept DEF Hung, GoesOn, ItemStep, IInv, Reading, Awaited, At
  <2>2. m.kind = "property" => m.data = row
    BY <2>1 DEF Conversation, Answering
  <2> HIDE DEF m, row
  <2>3. CASE m.kind = "property"
    <3>1. ui'.vars = [ui.vars EXCEPT !.kids = [@ EXCEPT ![row] = row]]
      BY <2>1, <2>2, <2>3 DEF add_fetched
    <3>2. ui'.vars.kids = [ui.vars.kids EXCEPT ![row] = row]
      BY <1>1, <3>1 DEF VarViews
    <3>3. ui.vars.kids \in [VarRows -> VarRows \cup {NULL}]
      BY <1>1 DEF VarViews
    <3> QED
      BY <3>2, <3>3 DEF KidsUnderTheirParent
  <2>4. CASE m.kind = "context"
    <3>1. ui'.vars = [ui.vars EXCEPT !.hints = @ \cup {row}]
      BY <2>1, <2>4 DEF add_fetched
    <3>2. ui'.vars.kids = ui.vars.kids
      BY <1>1, <3>1 DEF VarViews
    <3> QED
      BY <3>2 DEF KidsUnderTheirParent
  <2>5. CASE m.kind \notin {"property", "context"}
    BY <2>1, <2>5 DEF add_fetched, KidsUnderTheirParent
  <2> QED
    BY <2>3, <2>4, <2>5
<1>3. CASE Inspected
  <2> DEFINE m == cs.message
  <2>1. ui'.vars = VarView(m)
    BY <1>3, WidgetsKept
  <2> HIDE DEF m
  <2>2. CASE m.kind = "property"
    <3>1. ui'.vars = [EmptyVarView EXCEPT !.rows = {m.data},
                                          !.kids = [@ EXCEPT ![m.data] = m.data]]
      BY <2>1, <2>2 DEF VarView
    <3>2. ui'.vars.kids = [NoKids EXCEPT ![m.data] = m.data]
      BY <3>1 DEF EmptyVarView
    <3> QED
      BY <3>2 DEF NoKids, KidsUnderTheirParent
  <2>3. CASE m.kind # "property"
    <3>1. ui'.vars.kids = NoKids
      BY <2>1, <2>3 DEF VarView, EmptyVarView
    <3> QED
      BY <3>1 DEF NoKids, KidsUnderTheirParent
  <2> QED
    BY <2>2, <2>3
<1>4. CASE Parted
  BY <1>4 DEF Parted, EmptyVarView, NoKids, KidsUnderTheirParent
<1>5. ~ Hung /\ ~ Inspected /\ ~ Parted => ui'.vars.kids = ui.vars.kids
  BY WidgetsKept DEF Dispatching, OnWire, ByUser, TurnedToInnermost, TurnedToSelected, Turning
<1> QED
  BY <1>2, <1>3, <1>4, <1>5 DEF KidsUnderTheirParent

(* so no variable is given those of another. *)
THEOREM ChildrenAreTheirOwn ==
  ASSUME Patient
  PROVE  Spec => []KidsUnderTheirParent
<1>1. Init => KidsUnderTheirParent
  BY DEF Init, ClientInit, EmptyVarView, NoKids, KidsUnderTheirParent
<1>2. IInv /\ Conversation /\ KidsUnderTheirParent /\ [Next]_vars => KidsUnderTheirParent'
  BY StepEffects, KidsKept
<1> QED
  BY <1>1, <1>2, Invariance, ConversationAlways, PTL DEF Spec
-----------------------------------------------------------------------------
(***************************************************************************)
(* Arrows.  Of the arrows that this session has not put where they are,    *)
(* each is the last of another session.                                    *)
(***************************************************************************)
ArrowsCounted ==
    LET others == ui.arrows \ {cs.last_iter}
    IN  /\ IsFiniteSet(ui.arrows)
        /\ IF conn = "open" THEN Cardinality(others) + 1 <= accepts
                            ELSE Cardinality(ui.arrows) <= accepts

(* Adding one element, or fewer, to a finite set. *)
LEMMA OneMore ==
  ASSUME NEW S, NEW T, NEW x, IsFiniteSet(S), T \subseteq S \cup {x}
  PROVE  /\ IsFiniteSet(T) /\ Cardinality(T) \in Nat
         /\ Cardinality(T) <= Cardinality(S) + 1
         /\ T \subseteq S => Cardinality(T) <= Cardinality(S)
<1>1. /\ IsFiniteSet(S \cup {x}) /\ Cardinality(S) \in Nat
      /\ Cardinality(S \cup {x}) \in Nat
      /\ Cardinality(S \cup {x}) <= Cardinality(S) + 1
  <2>1. /\ IsFiniteSet(S \cup {x}) /\ Cardinality(S) \in Nat
        /\ Cardinality(S \cup {x}) = IF x \in S THEN Cardinality(S) ELSE Cardinality(S) + 1
    BY FS_AddElement, FS_CardinalityType
  <2> QED
    BY <2>1
<1>2. /\ IsFiniteSet(T) /\ Cardinality(T) <= Cardinality(S \cup {x})
      /\ Cardinality(T) \in Nat
  BY <1>1, FS_Subset, FS_CardinalityType
<1>3. T \subseteq S => Cardinality(T) <= Cardinality(S)
  BY FS_Subset
<1> QED
  BY <1>1, <1>2, <1>3

(* Only the item that marks the innermost frame moves an arrow. *)
LEMMA ArrowsStay ==
  ASSUME IInv, Dispatching \/ OnWire \/ ByUser \/ ByEngine \/ Idle
  PROVE  \/ TurnedToInnermost \/ Parted \/ Opened
         \/ UNCHANGED <<conn, accepts>> /\ ui'.arrows = ui.arrows
            /\ cs'.last_iter = cs.last_iter
<1>1. CASE Issued \/ Quiet \/ Inspected \/ Ended \/ Ignored \/ Resumed \/ Sent \/ Pressed
  <2>1. cs'.last_iter = cs.last_iter /\ ui'.arrows = ui.arrows
    BY <1>1, NotesKept, WidgetsKept DEF SameNotes
  <2>2. UNCHANGED <<conn, accepts>>
    BY <1>1 DEF Issued, Quiet, Inspected, Ended, GoesOn, ItemStep, Ignored, Resumed, Got,
       Sent, Pressed, Clicked
  <2> QED
    BY <2>1, <2>2
<1>2. CASE Added \/ Hung \/ Listed \/ Begun \/ RowChosen \/ FrameChosen
  <2>1. cs'.last_iter = cs.last_iter /\ ui'.arrows = ui.arrows
    BY <1>2, NotesKept, WidgetsKept
  <2>2. UNCHANGED <<conn, accepts>>
    BY <1>2 DEF Added, Hung, Listed, GoesOn, ItemStep, Begun, Got, RowChosen, FrameChosen,
       Clicked
  <2> QED
    BY <2>1, <2>2
<1>3. CASE TurnedToSelected
  <2>1. /\ UNCHANGED <<conn, accepts>> /\ cs'.last_iter = cs.last_iter
        /\ Turned(cs.last_selected_stack_frame + 1, At("SELECT_STACK", {2}), ui.arrows)
    BY <1>3 DEF TurnedToSelected, Turning, ItemStep
  <2>2. ui'.arrows = ui.arrows
    BY <2>1 DEF Turned
  <2> QED
    BY <2>1, <2>2
<1>4. CASE ByEngine \/ Idle
  BY <1>4 DEF ByEngine, Replied, Accepted, Continued, Left, Stopped, Finished, Died,
     TakesOne, EngineActs, Idle
<1> QED
  BY <1>1, <1>2, <1>3, <1>4 DEF Dispatching, OnWire, ByUser

(* A session leaves one arrow behind at most. *)
LEMMA ArrowsCountedKept ==
  ASSUME IInv, ArrowsCounted, Dispatching \/ OnWire \/ ByUser \/ ByEngine \/ Idle
  PROVE  ArrowsCounted'
<1> DEFINE others == ui.arrows \ {cs.last_iter}
<1>1. /\ IsFiniteSet(ui.arrows) /\ IsFiniteSet(others)
      /\ Cardinality(ui.arrows) \in Nat /\ Cardinality(others) \in Nat
      /\ Cardinality(ui.arrows) <= Cardinality(others) + 1
      /\ accepts \in Nat
  <2>1. IsFiniteSet(ui.arrows) /\ accepts \in Nat
    BY DEF ArrowsCounted, IInv, TypeOK
  <2>2. others \subseteq ui.arrows \cup {cs.last_iter}
    OBVIOUS
  <2>3. ui.arrows \subseteq others \cup {cs.last_iter}
    OBVIOUS
  <2> HIDE DEF others
  <2>4. IsFiniteSet(others) /\ Cardinality(others) \in Nat
    BY <2>1, <2>2, OneMore
  <2> QED
    BY <2>1, <2>3, <2>4, OneMore
<1>2. CASE TurnedToInnermost
  <2>1. /\ conn = "open" /\ conn' = "open" /\ accepts' = accepts
    BY <1>2 DEF TurnedToInnermost, Turning, ItemStep, IInv, Reading
  <2>2. Cardinality(others) + 1 <= accepts
    BY <2>1 DEF ArrowsCounted
  <2> DEFINE place == Arrow(cs.message)
             shown == 1 \in DOMAIN Frames(cs.message) /\ HasTab(Frames(cs.message)[1])
  <2>3. /\ cs'.last_iter = IF shown THEN place ELSE cs.last_iter
        /\ ui'.arrows = IF shown THEN MovedArrow(ui.arrows, cs.last_iter, place)
                                 ELSE ui.arrows
    BY <1>2 DEF TurnedToInnermost, Turned
  <2> HIDE DEF place, shown
  <2>4. ui'.arrows \ {cs'.last_iter} \subseteq others
        /\ ui'.arrows \subseteq ui.arrows \cup {place}
    BY <2>3 DEF MovedArrow
  <2>5. IsFiniteSet(ui'.arrows)
    BY <1>1, <2>4, OneMore
  <2>6. /\ Cardinality(ui'.arrows \ {cs'.last_iter}) \in Nat
        /\ Cardinality(ui'.arrows \ {cs'.last_iter}) <= Cardinality(others)
    <3> DEFINE T == ui'.arrows \ {cs'.last_iter}
    <3>1. T \subseteq others /\ T \subseteq others \cup {place}
      BY <2>4
    <3> HIDE DEF T, others
    <3>2. Cardinality(T) \in Nat /\ Cardinality(T) <= Cardinality(others)
      BY <1>1, <3>1, OneMore
    <3> QED
      BY <3>2 DEF T
  <2> HIDE DEF others
  <2>7. Cardinality(ui'.arrows \ {cs'.last_iter}) + 1 <= accepts'
    BY <1>1, <2>1, <2>2, <2>6
  <2> QED
    BY <2>1, <2>5, <2>7 DEF ArrowsCounted
<1>3. CASE Parted
  <2>1. /\ conn = "open" /\ conn' = "freed" /\ accepts' = accepts /\ ui'.arrows = ui.arrows
    BY <1>3 DEF Parted
  <2>2. Cardinality(others) + 1 <= accepts
    BY <2>1 DEF ArrowsCounted
  <2> HIDE DEF others
  <2> QED
    BY <1>1, <2>1, <2>2 DEF ArrowsCounted
<1>4. CASE Opened
  <2>1. /\ conn # "open" /\ conn' = "open" /\ accepts' = accepts + 1 /\ ui' = ui
        /\ cs'.last_iter = NULL
    BY <1>4 DEF Opened, NewClientState
  <2>2. Cardinality(ui.arrows) <= accepts
    BY <2>1 DEF ArrowsCounted
  <2> DEFINE T == ui.arrows \ {NULL}
  <2>3. T \subseteq ui.arrows /\ T \subseteq ui.arrows \cup {NULL}
    OBVIOUS
  <2> HIDE DEF T
  <2>4. Cardinality(T) \in Nat /\ Cardinality(T) <= Cardinality(ui.arrows)
    BY <1>1, <2>3, OneMore
  <2>5. Cardinality(T) + 1 <= accepts'
    BY <1>1, <2>1, <2>2, <2>4
  <2> QED
    BY <1>1, <2>1, <2>5 DEF ArrowsCounted, T
<1>5. CASE UNCHANGED <<conn, accepts>> /\ ui'.arrows = ui.arrows
           /\ cs'.last_iter = cs.last_iter
  BY <1>5 DEF ArrowsCounted
<1> QED
  BY <1>2, <1>3, <1>4, <1>5, ArrowsStay

(* This holds whoever clicks, *)
LEMMA ArrowsAlways == Spec => []ArrowsCounted
<1>1. Init => ArrowsCounted
  BY FS_EmptySet DEF Init, ClientInit, ArrowsCounted
<1>2. IInv /\ ArrowsCounted /\ [Next]_vars => ArrowsCounted'
  BY StepEffects, ArrowsCountedKept
<1> QED
  BY <1>1, <1>2, Invariance, PTL DEF Spec

(* and bounds all arrows by the sessions there have been. *)
LEMMA ArrowsBounded ==
  ASSUME IInv, ArrowsCounted
  PROVE  Cardinality(ui.arrows) <= accepts
<1> DEFINE others == ui.arrows \ {cs.last_iter}
<1>1. IsFiniteSet(ui.arrows) /\ accepts \in Nat
  BY DEF ArrowsCounted, IInv, TypeOK
<1>2. others \subseteq ui.arrows \cup {cs.last_iter}
  OBVIOUS
<1>3. ui.arrows \subseteq others \cup {cs.last_iter}
  OBVIOUS
<1>4. /\ conn = "open" => Cardinality(others) + 1 <= accepts
      /\ conn # "open" => Cardinality(ui.arrows) <= accepts
  BY DEF ArrowsCounted
<1> HIDE DEF others
<1>5. IsFiniteSet(others) /\ Cardinality(others) \in Nat
  BY <1>1, <1>2, OneMore
<1>6. /\ Cardinality(ui.arrows) \in Nat
      /\ Cardinality(ui.arrows) <= Cardinality(others) + 1
  BY <1>3, <1>5, OneMore
<1> QED
  BY <1>1, <1>4, <1>5, <1>6
-----------------------------------------------------------------------------
(***************************************************************************)
(* Where the script is, by place.  From here on the engine is one that the *)
(* lists are written for: a script stops before it ends, stepping into it  *)
(* and asking for the stack are not refused, and no stack is deeper than   *)
(* the signed char that a level is kept in can tell.                       *)
(***************************************************************************)
Cooperative ==
    /\ ~ EmptyScripts
    /\ "step_into" \notin Refused /\ "stack_get" \notin Refused
    /\ \A s \in Stacks : Len(s) <= 128

(* The script has not been stepped into yet. *)
Opening ==
    \/ At("INITIAL", 1 .. 4)
    \/ At("INITIAL", {5}) /\ ~ dispatching /\ toClient = << >>

(* The script is at a stop, or was when the engine died. *)
AtStop == engine.phase \in {"break", "gone"} /\ engine.frames \in Stacks

NextDocument ==
    LET kind == Head(toClient).kind
    IN  /\ kind \in {"init", "break", "stopped", "error"}
        /\ kind = "init" =>
              engine.phase \in {"starting", "gone"} /\ engine.frames = << >>
        /\ kind = "break" => AtStop
        /\ kind = "stopped" => engine.phase \in {"stopping", "gone"}
        /\ kind = "error" => engine.phase # "starting"

PhaseOK ==
    /\ engine.phase = "break" => engine.frames \in Stacks
    /\ conn = "open" =>
          /\ Opening =>
                /\ engine.phase \in {"starting", "running", "gone"}
                /\ engine.frames = << >>
                /\ engine.phase = "running" => cs.action_list_ptr = 5
          /\ InList /\ cs.server_state # "STOPPED" /\ ~ Opening => AtStop
          /\ cs.server_state = "STOPPED" => engine.phase \in {"stopping", "gone"}
          /\ ~ InList => IF toClient = << >> THEN engine.phase # "starting"
                                             ELSE NextDocument

(* Where continuing is awaited. *)
LEMMA ContinuePlaces ==
  ASSUME Awaited \in ContinueVerbs
  PROVE  At("INITIAL", {5}) \/ At("STOPPED", {3})
  BY DEF Awaited, ContinueVerbs

(* What a client that is between lists has asked for, and may be told. *)
LEMMA ButtonAnswers ==
  ASSUME NEW c, c.verb \in ButtonVerbs, NEW m, Answers(c, m)
  PROVE  m.kind = "error"
  BY DEF ButtonVerbs, ContinueVerbs, EndVerbs, Answers

(* Neither an item nor a document that is read changes where the script    *)
(* is,                                                                     *)
LEMMA PhaseKeptByItems ==
  ASSUME IInv, Turns, PhaseOK, conn = "open", Dispatching
  PROVE  PhaseOK'
<1>1. /\ InList /\ dispatching /\ conn' = "open"
      /\ toClient' = << >> /\ engine' = engine /\ engine.phase # "running"
      /\ cs.action_list_ptr \in Nat
  BY Rhythm, EffectTypes
<1>2. /\ Opening =>
            /\ engine.phase \in {"starting", "running", "gone"}
            /\ engine.frames = << >>
      /\ cs.server_state # "STOPPED" /\ ~ Opening => AtStop
      /\ cs.server_state = "STOPPED" => engine.phase \in {"stopping", "gone"}
      /\ Opening <=> At("INITIAL", 1 .. 4)
      /\ engine.phase = "break" => engine.frames \in Stacks
      /\ AtStop' <=> AtStop
  BY <1>1 DEF PhaseOK, Opening, AtStop
<1>3. CASE ~ Ended
  <2>1. /\ cs'.server_state = cs.server_state /\ InList'
        /\ cs.action_list_ptr \in 1 .. 4 /\ cs.server_state = "INITIAL"
              <=> Opening'
    <3>1. CASE Issued
      BY <1>1, <3>1 DEF Issued, InList, Opening, At
    <3>2. CASE Quiet
      BY <1>1, <3>2 DEF Quiet, GoesOn, InList, Opening, At
    <3>4. CASE Added \/ Hung \/ Listed \/ Inspected
      BY <1>1, <3>4 DEF Added, Hung, Listed, Inspected, GoesOn, InList, Opening, At
    <3>3. CASE TurnedToInnermost \/ TurnedToSelected
      BY <1>1, <3>3 DEF TurnedToInnermost, TurnedToSelected, Turning, Turned, InList,
                        Opening, At
    <3> QED
      BY <1>3, <3>1, <3>2, <3>3, <3>4 DEF Dispatching
  <2>2. Opening' <=> Opening
    BY <1>2, <2>1 DEF At
  <2> QED
    BY <1>1, <1>2, <2>1, <2>2 DEF PhaseOK
<1>4. CASE Ended
  <2>1. ~ InList' /\ ~ Opening' /\ cs'.server_state = "INPUT" /\ ~ Opening
    BY <1>2, <1>4 DEF Ended, InList, Opening, At
  <2>2. engine.phase # "starting"
    BY <1>2, <2>1 DEF AtStop
  <2> QED
    BY <1>1, <1>2, <2>1, <2>2 DEF PhaseOK
<1> QED
  BY <1>3, <1>4

(* nor does what the client reads or writes, or loses, *)
LEMMA PhaseKeptOnWire ==
  ASSUME IInv, Turns, PhaseOK, conn = "open", OnWire
  PROVE  PhaseOK'
<1>1. CASE Begun \/ Ignored \/ Resumed
  <2>1. /\ conn' = "open" /\ toClient' = << >> /\ toClient # << >>
        /\ engine' = engine /\ engine.phase # "running"
    BY <1>1, Rhythm
  <2>2. AtStop' <=> AtStop
    BY <2>1 DEF AtStop
  <2>3. CASE Begun
    <3>1. NextDocument /\ cs'.action_list_ptr = 1
      BY <2>1, <2>3 DEF Begun, PhaseOK
    <3>2. \/ /\ Head(toClient).kind = "init" /\ cs'.server_state = "INITIAL" /\ Opening'
             /\ engine.phase \in {"starting", "gone"} /\ engine.frames = << >>
          \/ Head(toClient).kind = "break" /\ cs'.server_state = "BREAK" /\ ~ Opening'
             /\ AtStop
          \/ Head(toClient).kind = "stopped" /\ cs'.server_state = "STOPPED" /\ ~ Opening'
             /\ engine.phase \in {"stopping", "gone"}
      BY <2>3, <3>1 DEF Begun, NextDocument, Opening, At
    <3> QED
      BY <2>1, <2>2, <3>2 DEF PhaseOK, InList
  <2>4. CASE Ignored
    <3>1. NextDocument /\ cs'.server_state = "INPUT" /\ ~ Opening' /\ ~ InList'
      BY <2>1, <2>4 DEF Ignored, PhaseOK, InList, Opening, At
    <3>2. engine.phase # "starting"
      BY <2>4, <3>1 DEF Ignored, NextDocument
    <3> QED
      BY <2>1, <2>2, <3>1, <3>2 DEF PhaseOK
  <2>5. CASE Resumed
    <3>1. /\ InList /\ InList' /\ cs'.server_state = cs.server_state
          /\ cs'.action_list_ptr = cs.action_list_ptr /\ dispatching'
      BY <2>5 DEF Resumed, InList
    <3>2. Opening' <=> Opening
      BY <2>1, <3>1 DEF Opening, At
    <3> QED
      BY <2>1, <2>2, <3>1, <3>2 DEF PhaseOK
  <2> QED
    BY <1>1, <2>3, <2>4, <2>5
<1>2. CASE Sent
  <2>1. /\ conn' = "open" /\ toClient' = << >> /\ toClient = << >>
        /\ engine' = engine /\ SamePlace
    BY <1>2, Rhythm DEF Sent
  <2>2. (AtStop' <=> AtStop) /\ (Opening' <=> Opening) /\ (InList' <=> InList)
    BY <2>1 DEF AtStop, Opening, InList, At, SamePlace
  <2> QED
    BY <2>1, <2>2 DEF PhaseOK, SamePlace
<1>3. CASE Parted
  BY <1>3 DEF Parted, PhaseOK
<1>4. ~ Opened
  BY Rhythm
<1> QED
  BY <1>1, <1>2, <1>3, <1>4 DEF OnWire

(* nor a click, for which the script is at a stop. *)
LEMMA PhaseKeptByUser ==
  ASSUME IInv, Turns, PhaseOK, Patient, conn = "open", ByUser
  PROVE  PhaseOK'
<1>1. /\ conn' = "open" /\ ~ InList /\ engine.phase = "break" /\ engine' = engine
      /\ toClient' = << >> /\ ~ dispatching'
  BY Rhythm DEF Settled, InList
<1>2. AtStop'
  BY <1>1 DEF PhaseOK, AtStop
<1>3. cs'.server_state \in {"INPUT", "SELECT_STACK", "FETCH_PROPERTY"}
  BY <1>1 DEF ByUser, Pressed, SamePlace, FrameChosen, RowChosen, InList
<1>4. ~ Opening'
  BY <1>3 DEF Opening, At
<1> QED
  BY <1>1, <1>2, <1>3, <1>4 DEF PhaseOK, InList

(* The engine does, by what it was asked. *)
LEMMA PhaseKeptByEngine ==
  ASSUME IInv, Turns, Conversation, PhaseOK, Cooperative, conn = "open", ByEngine
  PROVE  PhaseOK'
<1>1. UNCHANGED <<conn, dispatching, cs>> /\ InList' = InList
  BY Rhythm DEF InList
<1>2. CASE Replied
  <2>1. /\ engine' = engine /\ toEngine # << >> /\ Head(toEngine) = Asked
        /\ toClient = << >> /\ ~ dispatching
        /\ engine.phase # "running"
    BY <1>2, Rhythm DEF Replied, TakesOne
  <2>2. PICK m \in Messages : toClient' = Append(toClient, m) /\ Answers(Asked, m)
    BY <1>2 DEF Replied
  <2>3. toClient' # << >> /\ Head(toClient') = m
    BY <2>1, <2>2
  <2>4. Asking(Asked)
    BY <2>1 DEF Conversation
  <2>5. AtStop' <=> AtStop
    BY <2>1 DEF AtStop
  <2>6. CASE InList
    <3>1. Awaited # "step_into"
      BY <2>2, <2>4, <2>6 DEF Asking, Answers, TurnsDown, Cooperative
    <3>2. ~ At("INITIAL", {5})
      BY <3>1 DEF Awaited, At
    <3>3. Opening' <=> Opening
      BY <1>1, <3>2 DEF Opening, At
    <3> QED
      BY <1>1, <2>1, <2>5, <2>6, <3>3 DEF PhaseOK
  <2>7. CASE ~ InList
    <3>1. m.kind = "error"
      BY <2>2, <2>4, <2>7, ButtonAnswers DEF Asking
    <3>2. engine.phase # "starting"
      BY <2>1, <2>7 DEF PhaseOK
    <3>3. NextDocument'
      BY <2>1, <2>3, <3>1, <3>2 DEF NextDocument
    <3>4. ~ Opening' /\ cs'.server_state = "INPUT"
      BY <1>1, <2>7 DEF Opening, At, InList
    <3> QED
      BY <1>1, <2>1, <2>3, <2>7, <3>3, <3>4 DEF PhaseOK
  <2> QED
    BY <2>6, <2>7
<1>3. CASE Accepted
  <2>1. /\ engine'.phase = engine.phase /\ engine'.frames = engine.frames
        /\ toEngine # << >> /\ Head(toEngine) = Asked /\ toClient = << >>
        /\ Asked.verb \in {"breakpoint_set", "feature_set"}
    BY <1>3, Rhythm DEF Accepted
  <2>2. InList /\ Awaited \in {"breakpoint_set", "feature_set"}
    BY <2>1 DEF Conversation, Asking, ButtonVerbs, ContinueVerbs, EndVerbs
  <2>3. ~ At("INITIAL", {5})
    BY <2>2 DEF Awaited, At
  <2>4. (Opening' <=> Opening) /\ (AtStop' <=> AtStop)
    BY <1>1, <2>1, <2>3 DEF Opening, AtStop, At
  <2> QED
    BY <1>1, <2>1, <2>2, <2>4 DEF PhaseOK
<1>4. CASE Continued
  <2>1. /\ SameScript /\ toEngine # << >> /\ Head(toEngine) = Asked
        /\ toClient = << >> /\ toClient' = << >> /\ ~ dispatching
        /\ Asked.verb \in ContinueVerbs
        /\ engine.phase \in {"starting", "break", "stopping"}
        /\ engine'.phase = IF engine.phase = "stopping" THEN "gone" ELSE "running"
    BY <1>4, Rhythm DEF Continued, TakesOne
  <2>2. InList => At("INITIAL", {5}) \/ At("STOPPED", {3})
    BY <2>1, ContinuePlaces DEF Conversation, Asking
  <2>3. CASE At("INITIAL", {5})
    <3>1. Opening /\ Opening'
      BY <1>1, <2>1, <2>3 DEF Opening, At
    <3> QED
      BY <1>1, <2>1, <2>3, <3>1 DEF PhaseOK, SameScript, At, InList
  <2>4. CASE At("STOPPED", {3})
    <3>1. ~ Opening' /\ engine'.phase = "gone"
      BY <1>1, <2>1, <2>4 DEF Opening, At, PhaseOK
    <3> QED
      BY <1>1, <2>1, <2>4, <3>1 DEF PhaseOK, At, InList
  <2>5. CASE ~ InList
    <3>1. ~ Opening' /\ engine'.phase \in {"gone", "running"}
      BY <1>1, <2>1, <2>5 DEF Opening, At, InList
    <3> QED
      BY <1>1, <2>1, <2>5, <3>1 DEF PhaseOK, InList
  <2> QED
    BY <2>2, <2>3, <2>4, <2>5
<1>5. CASE Left
  <2>1. /\ toEngine # << >> /\ Head(toEngine) = Asked /\ toClient = << >>
        /\ Asked.verb \in EndVerbs /\ engine'.phase = "gone"
        /\ \/ toClient' = toClient
           \/ \E m \in Messages : toClient' = Append(toClient, m) /\ m.kind = "stopped"
    BY <1>5, Rhythm DEF Left
  <2>2. ~ InList
    <3>1. Awaited \notin EndVerbs
      BY DEF Awaited, EndVerbs
    <3> QED
      BY <2>1, <3>1 DEF Conversation, Asking
  <2>3. toClient' # << >> => NextDocument'
    BY <2>1 DEF NextDocument
  <2>4. ~ Opening' /\ cs'.server_state = "INPUT"
    BY <1>1, <2>2 DEF Opening, At, InList
  <2> QED
    BY <1>1, <2>1, <2>2, <2>3, <2>4 DEF PhaseOK
<1>6. CASE Stopped \/ Finished
  <2>1. /\ engine.phase = "running" /\ toClient = << >> /\ ~ dispatching
        /\ InList => At("INITIAL", {5}) \/ At("STOPPED", {3})
    BY <1>6, Rhythm, ContinuePlaces DEF Stopped, Finished, Conversation
  <2>2. ~ At("STOPPED", {3})
    BY <2>1 DEF PhaseOK, At
  <2>3. InList => Opening
    BY <2>1, <2>2 DEF Opening
  <2>4. PICK m \in Messages :
           /\ toClient' = Append(toClient, m)
           /\ \/ /\ m.kind = "break" /\ engine'.phase = "break"
                 /\ engine'.frames \in Stacks
              \/ /\ m.kind = "stopped" /\ engine'.phase = "stopping"
                 /\ EmptyScripts \/ engine.frames # << >>
    BY <1>6 DEF Stopped, Finished
  <2>5. toClient' # << >> /\ Head(toClient') = m
    BY <2>1, <2>4
  <2>6. InList => m.kind = "break"
    BY <2>3, <2>4 DEF PhaseOK, Cooperative
  <2>7. ~ Opening'
    BY <1>1, <2>1, <2>2, <2>5 DEF Opening, At, InList
  <2>8. CASE InList
    <3>1. AtStop' /\ cs'.server_state = "INITIAL"
      BY <1>1, <2>1, <2>2, <2>4, <2>6, <2>8 DEF AtStop, At
    <3> QED
      BY <1>1, <2>4, <2>7, <2>8, <3>1 DEF PhaseOK
  <2>9. CASE ~ InList
    <3>1. NextDocument' /\ cs'.server_state = "INPUT"
      BY <1>1, <2>4, <2>5, <2>9 DEF NextDocument, AtStop, InList
    <3> QED
      BY <1>1, <2>4, <2>5, <2>7, <2>9, <3>1 DEF PhaseOK
  <2> QED
    BY <2>8, <2>9
<1>7. CASE Died
  <2>1. /\ engine'.phase = "gone" /\ engine'.frames = engine.frames /\ toClient' = toClient
    BY <1>7 DEF Died, SameScript
  <2>2. (Opening' <=> Opening) /\ (AtStop => AtStop')
    BY <1>1, <2>1 DEF Opening, AtStop, At
  <2>3. NextDocument => NextDocument'
    BY <2>1, <2>2 DEF NextDocument
  <2> QED
    BY <1>1, <2>1, <2>2, <2>3 DEF PhaseOK
<1> QED
  BY <1>2, <1>3, <1>4, <1>5, <1>6, <1>7 DEF ByEngine

(* Without a connection only the next one matters. *)
LEMMA Unconnected ==
  ASSUME IInv, conn # "open", Dispatching \/ OnWire \/ ByUser \/ ByEngine \/ Idle
  PROVE  ByEngine \/ Idle \/ Opened
  BY DEF Dispatching, Issued, Quiet, Added, Hung, Listed, Inspected, GoesOn, ItemStep,
     TurnedToInnermost, TurnedToSelected, Turning, Ended, IInv, Reading, OnWire, Begun,
     Ignored, Resumed, Got, Sent, Parted, ByUser, Pressed, FrameChosen, RowChosen, Clicked

(* and so with every step. *)
LEMMA PhaseKept ==
  ASSUME IInv, Turns, Conversation, PhaseOK, Patient, Cooperative,
         Dispatching \/ OnWire \/ ByUser \/ ByEngine \/ Idle
  PROVE  PhaseOK'
<1>1. CASE conn = "open" /\ ~ Idle
  BY <1>1, PhaseKeptByItems, PhaseKeptOnWire, PhaseKeptByUser, PhaseKeptByEngine
<1>2. CASE Idle
  BY <1>2 DEF Idle, PhaseOK, Opening, AtStop, NextDocument, At, InList
<1>3. CASE conn # "open" /\ Opened
  <2>1. /\ engine'.phase = "starting" /\ engine'.frames = << >>
        /\ cs'.server_state = "INPUT"
        /\ toClient' # << >> /\ Head(toClient').kind = "init"
    BY <1>3 DEF Opened, NewClientState, Msg
  <2> QED
    BY <2>1 DEF PhaseOK, NextDocument, Opening, At, InList
<1>4. CASE conn # "open" /\ ByEngine
  <2>1. conn' # "open"
    BY <1>4 DEF ByEngine, Replied, Accepted, Continued, Left, Stopped, Finished, Died,
       TakesOne, EngineActs
  <2>2. engine'.phase = "break" => engine'.frames \in Stacks
    BY <1>4 DEF PhaseOK, ByEngine, Replied, Accepted, Continued, Left, Stopped, Finished,
       Died
  <2> QED
    BY <2>1, <2>2 DEF PhaseOK
<1> QED
  BY <1>1, <1>2, <1>3, <1>4, Unconnected

(* Where the script is holds in every session, *)
LEMMA PhaseAlways ==
  ASSUME Patient, Cooperative
  PROVE  Spec => []PhaseOK
<1>1. Init => PhaseOK
  BY DEF Init, ClientInit, EngineInit, PhaseOK
<1>2. IInv /\ Turns /\ Conversation /\ PhaseOK /\ [Next]_vars => PhaseOK'
  BY StepEffects, PhaseKept
<1> QED
  BY <1>1, <1>2, Invariance, TakingTurns, ConversationAlways, PTL DEF Spec

(* and the engine that answers in the middle of a list is at the stop.     *)
LEMMA AnswersAtStop ==
  ASSUME PhaseOK, conn = "open", engine.phase \in {"starting", "break", "stopping"},
         Awaited \in {"stack_get", "context_get", "property_get"} \/
            (Awaited = "source" /\ ~ At("INITIAL", {3}))
  PROVE  engine.phase = "break" /\ engine.frames \in Stacks
<1>1. /\ InList /\ cs.server_state # "STOPPED" /\ ~ Opening
  BY DEF Awaited, At, InList, Opening
<1>2. AtStop
  BY <1>1 DEF PhaseOK
<1> QED
  BY <1>2 DEF AtStop
-----------------------------------------------------------------------------
(***************************************************************************)
(* What is shown is of this stop.  An answer is up to date when it tells   *)
(* of the stop the script is at, or refuses what may be refused.           *)
(***************************************************************************)
Now == [stop |-> engine.stop, frames |-> engine.frames]

Current(m) ==
    /\ Awaited = "source" /\ m.kind = "error" => "source" \in Refused
    /\ Awaited = "stack_get" => m.kind = "stack" /\ m.data = Now
    /\ Awaited = "context_get" =>
          IF m.kind = "error"
          THEN "context_get" \in Refused
          ELSE m.data = [stop |-> engine.stop, level |-> cs.last_selected_stack_frame]
    /\ Awaited = "property_get" /\ m.kind = "error" => "property_get" \in Refused
    /\ Awaited = "step_into" => m.kind = "break"

UpToDate ==
    conn = "open" =>
       /\ toClient # << >> /\ InList => Current(Head(toClient))
       /\ dispatching => Current(cs.message)

(* The user has the stop before him, and no other is announced. *)
Calm ==
    /\ ~ InList /\ engine.phase = "break"
    /\ toClient # << >> => Head(toClient).kind # "break"

(* The file of the selected frame. *)
Wanted == engine.frames[cs.last_selected_stack_frame + 1]

(* The places where the stack view shows this stop, where the file of the  *)
(* selected frame is on its way, where its page is there, where it is in   *)
(* front, where the arrow points into it, and where its variables are.     *)
StackPlace ==
    \/ From("INITIAL", 7) \/ From("BREAK", 4)
    \/ From("SELECT_STACK", 1) \/ From("FETCH_PROPERTY", 1) \/ Calm

FilePlace == At("INITIAL", {8, 9}) \/ At("BREAK", {5, 6}) \/ At("SELECT_STACK", {3, 4})

PagePlace == At("INITIAL", {10, 11}) \/ At("BREAK", {7, 8}) \/ At("SELECT_STACK", {5, 6})

FrontPlace ==
    \/ From("INITIAL", 12) \/ From("BREAK", 9)
    \/ From("SELECT_STACK", 7) \/ From("FETCH_PROPERTY", 1) \/ Calm

ArrowPlace ==
    \/ From("INITIAL", 12) \/ From("BREAK", 9)
    \/ From("SELECT_STACK", 1) \/ From("FETCH_PROPERTY", 1) \/ Calm

VarsPlace ==
    \/ From("INITIAL", 14) \/ From("BREAK", 11)
    \/ From("SELECT_STACK", 9) \/ From("FETCH_PROPERTY", 1) \/ Calm

StackShown ==
    /\ ui.stack = Now
    /\ cs.last_selected_stack_frame + 1 \in DOMAIN engine.frames
    /\ cs.nr_of_stack_frames = Len(engine.frames)

Marked == [file |-> engine.frames[1], stop |-> engine.stop]

VarsShown ==
    ui.vars.from = [stop |-> engine.stop, level |-> cs.last_selected_stack_frame]

Shown ==
    conn = "open" =>
       /\ At("INITIAL", 1 .. 3) => cs.last_source_file \in Files
       /\ StackPlace => StackShown
       /\ From("INITIAL", 7) \/ From("BREAK", 4) => cs.last_selected_stack_frame = 0
       /\ FilePlace => cs.last_source_file = Wanted
       /\ PagePlace => HasTab(Wanted)
       /\ FrontPlace => ui.current = Wanted
       /\ ArrowPlace => Marked \in ui.arrows
       /\ VarsPlace /\ "context_get" \notin Refused => VarsShown

(* An item passes on the document as it got it, *)
LEMMA CurrentKept ==
  ASSUME IInv, Turns, conn = "open", Dispatching, dispatching', Current(cs.message)
  PROVE  Current(cs.message)'
<1>1. cs'.message = cs.message /\ engine' = engine /\ cs.action_list_ptr \in Nat
  BY Rhythm, EffectTypes
<1>2. Now' = Now
  BY <1>1 DEF Now
<1>3. CASE Quiet
  <2>1. \/ /\ cs.action_list_ptr = 1 /\ cs'.action_list_ptr = 2
           /\ cs'.server_state = cs.server_state
        \/ At("INITIAL", {23})' \/ At("BREAK", {12})'
           \/ At("SELECT_STACK", {10})' \/ At("FETCH_PROPERTY", {4})'
        \/ At("INITIAL", {15, 19})'
    BY <1>1, <1>3 DEF Quiet, GoesOn, At
  <2>2. Awaited' \in {"none", "breakpoint_set"} \/
           (Awaited' = Awaited /\ Awaited # "context_get")
    BY <2>1 DEF Awaited, At
  <2> QED
    BY <1>1, <1>2, <2>2 DEF Current
<1>4. CASE Listed
  <2>1. Awaited = "stack_get" /\ Awaited' = "stack_get"
    BY <1>4 DEF Listed, GoesOn, At, Awaited
  <2> QED
    BY <1>1, <1>2, <2>1 DEF Current
<1>5. CASE Added \/ Hung \/ Inspected
  <2>1. Awaited' = "none"
    BY <1>5 DEF Added, Hung, Inspected, GoesOn, At, Awaited
  <2> QED
    BY <2>1 DEF Current
<1>6. CASE TurnedToInnermost \/ TurnedToSelected
  <2>1. /\ cs'.server_state = cs.server_state
        /\ cs'.action_list_ptr \in {cs.action_list_ptr + 1, cs.action_list_ptr + 5}
        /\ \/ At("INITIAL", {7, 11}) \/ At("BREAK", {4, 8}) \/ At("SELECT_STACK", {2, 6})
        /\ cs'.action_list_ptr # cs.action_list_ptr + 1 =>
              At("INITIAL", {7}) \/ At("BREAK", {4}) \/ At("SELECT_STACK", {2})
    BY <1>1, <1>6 DEF TurnedToInnermost, TurnedToSelected, Turning, Turned
  <2>2. Awaited' = "none"
    BY <2>1 DEF At, Awaited
  <2> QED
    BY <2>2 DEF Current
<1>7. ~ Issued /\ ~ Ended
  BY DEF Issued, Ended
<1> QED
  BY <1>3, <1>4, <1>5, <1>6, <1>7 DEF Dispatching

(* and the engine tells of the stop it is at. *)
LEMMA ReplyCurrent ==
  ASSUME IInv, PhaseOK, Shown, Cooperative, conn = "open", InList,
         engine.phase \in {"starting", "break", "stopping"},
         NEW c, Asking(c), NEW m, Answers(c, m)
  PROVE  Current(m)
<1>1. CASE Awaited = "source"
  <2>1. c.verb = "source" /\ c.arg = cs.last_source_file
    BY <1>1 DEF Asking
  <2>2. cs.last_source_file \in Files
    <3>1. CASE At("INITIAL", {3})
      BY <3>1 DEF Shown, At
    <3>2. CASE ~ At("INITIAL", {3})
      <4>1. engine.frames \in Stacks
        BY <1>1, <3>2, AnswersAtStop
      <4>2. FilePlace /\ StackPlace
        BY <1>1, <3>2 DEF Awaited, FilePlace, StackPlace, At, From
      <4>3. /\ cs.last_source_file = engine.frames[cs.last_selected_stack_frame + 1]
            /\ cs.last_selected_stack_frame + 1 \in DOMAIN engine.frames
            /\ engine.frames \in Seq(Files)
        BY <4>1, <4>2, EngineAssumption DEF Shown, StackShown, Wanted
      <4> QED
        BY <4>3, Elements
    <3> QED
      BY <3>1, <3>2
  <2>3. m.kind = "error" => "source" \in Refused
    BY <2>1, <2>2 DEF Answers, TurnsDown
  <2> QED
    BY <1>1, <2>3 DEF Current
<1>2. CASE Awaited = "stack_get"
  <2>1. c.verb = "stack_get" /\ engine.phase = "break"
    BY <1>2, AnswersAtStop DEF Asking
  <2>2. m.kind = "stack" /\ m.data = Now
    BY <2>1 DEF Answers, TurnsDown, Cooperative, Now
  <2> QED
    BY <1>2, <2>2 DEF Current
<1>3. CASE Awaited = "context_get"
  <2>1. /\ c.verb = "context_get" /\ c.arg = cs.last_selected_stack_frame
        /\ engine.phase = "break"
    BY <1>3, AnswersAtStop DEF Asking
  <2>2. StackPlace
    BY <1>3 DEF Awaited, StackPlace, At, From
  <2>3. cs.last_selected_stack_frame + 1 \in DOMAIN engine.frames
    BY <2>2 DEF Shown, StackShown
  <2>4. IF m.kind = "error" THEN "context_get" \in Refused
        ELSE m.data = [stop |-> engine.stop, level |-> cs.last_selected_stack_frame]
    BY <2>1, <2>3 DEF Answers, TurnsDown
  <2> QED
    BY <1>3, <2>4 DEF Current
<1>4. CASE Awaited = "property_get"
  <2>1. c.verb = "property_get" /\ engine.phase = "break"
    BY <1>4, AnswersAtStop DEF Asking
  <2>2. m.kind = "error" => "property_get" \in Refused
    BY <2>1 DEF Answers, TurnsDown
  <2> QED
    BY <1>4, <2>2 DEF Current
<1>5. CASE Awaited = "step_into"
  BY <1>5 DEF Asking, Answers, TurnsDown, Cooperative
<1>6. CASE Awaited \notin {"source", "stack_get", "context_get", "property_get", "step_into"}
  BY <1>6 DEF Current
<1> QED
  BY <1>1, <1>2, <1>3, <1>4, <1>5, <1>6

(* So every answer is up to date until it is used. *)
LEMMA UpToDateKept ==
  ASSUME IInv, Turns, Conversation, PhaseOK, UpToDate, Shown, Patient, Cooperative,
         Dispatching \/ OnWire \/ ByUser \/ ByEngine \/ Idle
  PROVE  UpToDate'
<1>1. CASE conn # "open"
  <2>1. CASE Opened
    BY <2>1 DEF Opened, NewClientState, UpToDate, InList
  <2>2. CASE ByEngine \/ Idle
    BY <1>1, <2>2 DEF UpToDate, ByEngine, Replied, Accepted, Continued, Left, Stopped,
       Finished, Died, TakesOne, EngineActs, Idle
  <2> QED
    BY <1>1, <2>1, <2>2, Unconnected
<1>2. CASE conn = "open" /\ Dispatching
  <2>1. toClient' = << >> /\ dispatching /\ (dispatching' => Current(cs.message)')
    BY <1>2, Rhythm, CurrentKept DEF UpToDate
  <2> QED
    BY <2>1 DEF UpToDate
<1>3. CASE conn = "open" /\ OnWire
  <2>1. CASE Begun \/ Ignored \/ Resumed
    <3>1. /\ toClient' = << >> /\ toClient # << >> /\ cs'.message = Head(toClient)
          /\ engine' = engine
      BY <1>3, <2>1, Rhythm
    <3>2. CASE Begun
      <4>1. Awaited' = "none"
        BY <3>2 DEF Begun, Awaited, At
      <4> QED
        BY <3>1, <4>1 DEF UpToDate, Current
    <3>3. CASE Ignored
      BY <3>1, <3>3 DEF Ignored, UpToDate
    <3>4. CASE Resumed
      <4>1. InList /\ SameNotes(cs, cs') /\ Awaited' = Awaited
        BY <3>4 DEF Resumed, Awaited, At
      <4>2. Current(Head(toClient))
        BY <1>3, <3>1, <4>1 DEF UpToDate
      <4>3. Current(cs.message)'
        BY <3>1, <4>1, <4>2 DEF Current, SameNotes, Now
      <4> QED
        BY <3>1, <4>3 DEF UpToDate
    <3> QED
      BY <2>1, <3>2, <3>3, <3>4
  <2>2. CASE Sent
    <3>1. toClient' = << >> /\ ~ dispatching'
      BY <1>3, <2>2, Rhythm
    <3> QED
      BY <3>1 DEF UpToDate
  <2>3. CASE Parted
    BY <2>3 DEF Parted, UpToDate
  <2>4. ~ Opened
    BY <1>3, Rhythm
  <2> QED
    BY <1>3, <2>1, <2>2, <2>3, <2>4 DEF OnWire
<1>4. CASE conn = "open" /\ ByUser
  <2>1. toClient' = << >> /\ ~ dispatching'
    BY <1>4, Rhythm
  <2> QED
    BY <2>1 DEF UpToDate
<1>5. CASE conn = "open" /\ ByEngine
  <2>1. /\ UNCHANGED <<conn, dispatching, cs>> /\ InList' = InList /\ Awaited' = Awaited
    BY <1>5, Rhythm DEF InList, Awaited, At
  <2>2. CASE Replied
    <3>1. /\ engine' = engine /\ toEngine # << >> /\ Head(toEngine) = Asked
          /\ toClient = << >> /\ ~ dispatching
          /\ engine.phase \in {"starting", "break", "stopping"}
      BY <1>5, <2>2, Rhythm DEF Replied, TakesOne
    <3>2. PICK m \in Messages : toClient' = Append(toClient, m) /\ Answers(Asked, m)
      BY <2>2 DEF Replied
    <3>3. toClient' # << >> /\ Head(toClient') = m
      BY <3>1, <3>2
    <3>4. InList => Current(m)
      BY <1>5, <3>1, <3>2, ReplyCurrent DEF Conversation
    <3>5. InList => Current(Head(toClient))'
      BY <2>1, <3>1, <3>3, <3>4 DEF Current, Now
    <3> QED
      BY <2>1, <3>1, <3>5 DEF UpToDate
  <2>3. CASE Accepted
    <3>1. /\ toEngine # << >> /\ Head(toEngine) = Asked /\ ~ dispatching
          /\ Asked.verb \in {"breakpoint_set", "feature_set"}
      BY <1>5, <2>3, Rhythm DEF Accepted
    <3>2. InList => Awaited \in {"breakpoint_set", "feature_set"}
      BY <1>5, <3>1 DEF Conversation, Asking
    <3> QED
      BY <2>1, <3>1, <3>2 DEF UpToDate, Current
  <2>4. CASE Continued
    <3>1. toClient' = << >> /\ ~ dispatching
      BY <1>5, <2>4, Rhythm DEF Continued
    <3> QED
      BY <2>1, <3>1 DEF UpToDate
  <2>5. CASE Left
    <3>1. toEngine # << >> /\ Head(toEngine) = Asked /\ ~ dispatching
      BY <1>5, <2>5, Rhythm
    <3>2. ~ InList
      <4>1. Awaited \notin EndVerbs
        BY DEF Awaited, EndVerbs
      <4> QED
        BY <1>5, <2>5, <3>1, <4>1 DEF Left, Conversation, Asking
    <3> QED
      BY <2>1, <3>1, <3>2 DEF UpToDate
  <2>6. CASE Stopped \/ Finished
    <3>1. /\ engine.phase = "running" /\ toClient = << >> /\ ~ dispatching
          /\ InList => At("INITIAL", {5}) \/ At("STOPPED", {3})
      BY <1>5, <2>6, Rhythm, ContinuePlaces DEF Stopped, Finished, Conversation
    <3>2. PICK m \in Messages :
             /\ toClient' = Append(toClient, m)
             /\ \/ m.kind = "break"
                \/ EmptyScripts \/ engine.frames # << >>
      BY <2>6 DEF Stopped, Finished
    <3>3. toClient' # << >> /\ Head(toClient') = m
      BY <3>1, <3>2
    <3>4. InList => m.kind = "break"
      <4>1. At("INITIAL", {5}) => engine.frames = << >>
        BY <1>5, <3>1 DEF PhaseOK, Opening
      <4>2. ~ At("STOPPED", {3})
        BY <1>5, <3>1 DEF PhaseOK, At
      <4> QED
        BY <3>1, <3>2, <4>1, <4>2 DEF Cooperative
    <3>5. InList => Awaited \in {"step_into", "run"}
      BY <3>1 DEF Awaited, At
    <3> QED
      BY <2>1, <3>1, <3>3, <3>4, <3>5 DEF UpToDate, Current
  <2>7. CASE Died
    <3>1. toClient' = toClient /\ Now' = Now /\ engine'.stop = engine.stop
      BY <2>7 DEF Died, SameScript, Now
    <3> QED
      BY <2>1, <3>1 DEF UpToDate, Current
  <2> QED
    BY <1>5, <2>2, <2>3, <2>4, <2>5, <2>6, <2>7 DEF ByEngine
<1>6. CASE Idle
  <2>1. Now' = Now /\ Awaited' = Awaited
    BY <1>6 DEF Idle, Now, Awaited, At
  <2> QED
    BY <1>6, <2>1 DEF Idle, UpToDate, Current, InList
<1> QED
  BY <1>1, <1>2, <1>3, <1>4, <1>5, <1>6

(* All that Shown speaks of but the place, *)
Unmoved ==
    /\ conn' = conn
    /\ engine'.frames = engine.frames /\ engine'.stop = engine.stop
    /\ cs'.last_source_file = cs.last_source_file
    /\ cs'.last_selected_stack_frame = cs.last_selected_stack_frame
    /\ cs'.nr_of_stack_frames = cs.nr_of_stack_frames
    /\ ui'.tabs = ui.tabs /\ ui'.current = ui.current /\ ui'.arrows = ui.arrows
    /\ ui'.stack = ui.stack /\ ui'.vars.from = ui.vars.from

(* and a move that leads to no place that asks for more. *)
NoNewPlace ==
    /\ At("INITIAL", 1 .. 3)' => At("INITIAL", 1 .. 3)
    /\ StackPlace' => StackPlace
    /\ From("INITIAL", 7)' \/ From("BREAK", 4)' => From("INITIAL", 7) \/ From("BREAK", 4)
    /\ FilePlace' => FilePlace
    /\ PagePlace' => PagePlace
    /\ FrontPlace' => FrontPlace
    /\ ArrowPlace' => ArrowPlace
    /\ VarsPlace' => VarsPlace

(* Between them nothing shown gets out of date. *)
LEMMA ShownStays ==
  ASSUME Shown, Unmoved, NoNewPlace
  PROVE  Shown'
<1> SUFFICES ASSUME conn = "open" PROVE Shown'
  BY DEF Unmoved, Shown
<1>1. /\ Now' = Now /\ Wanted' = Wanted /\ Marked' = Marked
      /\ StackShown => StackShown'
      /\ VarsShown => VarsShown'
      /\ HasTab(Wanted) => HasTab(Wanted)'
  BY DEF Unmoved, Now, Wanted, Marked, StackShown, VarsShown, HasTab
<1> QED
  BY <1>1 DEF Shown, NoNewPlace, Unmoved

(* The steps that bring no news. *)
LEMMA PlainSteps ==
  ASSUME IInv, Turns, PhaseOK, conn = "open",
         \/ Issued \/ Quiet \/ Hung \/ Ended \/ Ignored \/ Resumed \/ Sent \/ Pressed
         \/ Replied \/ Accepted \/ Continued \/ Left \/ Finished \/ Died \/ Idle
  PROVE  Unmoved /\ NoNewPlace
<1>1. cs.action_list_ptr \in Nat
  BY EffectTypes
<1>2. CASE Issued \/ Quiet
  <2>1. SameNotes(cs, cs') /\ ui' = ui
    BY <1>2, NotesKept, WidgetsKept
  <2>2. Unmoved
    BY <1>2, <2>1 DEF Issued, Quiet, GoesOn, ItemStep, SameNotes, Unmoved
  <2>3. InList /\ cs'.server_state = cs.server_state
    BY <1>2, Rhythm DEF Dispatching, Issued, Quiet, GoesOn
  <2> DEFINE p == cs.action_list_ptr
             q == cs'.action_list_ptr
  <2>6. ~ Calm /\ ~ Calm'
    BY <2>3 DEF Calm, InList
  <2>4. CASE Issued
    <3>1. /\ q = p + 1
          /\ \/ At("INITIAL", {2, 4, 5, 8, 10, 12} \cup 15 .. 21)
             \/ At("BREAK", {2, 5, 7, 9}) \/ At("STOPPED", {2}) \/ At("SELECT_STACK", {3, 5, 7})
      BY <2>4 DEF Issued
    <3> QED
      BY <1>1, <2>2, <2>3, <2>6, <3>1 DEF NoNewPlace, StackPlace, FilePlace, PagePlace, FrontPlace,
         ArrowPlace, VarsPlace, At, From
  <2>5. CASE Quiet
    <3>1. CASE p = 1 /\ q = 2
      BY <2>2, <2>3, <2>6, <3>1 DEF NoNewPlace, StackPlace, FilePlace, PagePlace, FrontPlace,
         ArrowPlace, VarsPlace, At, From
    <3>2. CASE At("INITIAL", {22}) \/ At("BREAK", {11}) \/ At("SELECT_STACK", {9})
               \/ At("FETCH_PROPERTY", {3})
      <4>1. q = p + 1
        BY <2>5, <3>2 DEF Quiet, At
      <4> QED
        BY <2>2, <2>3, <2>6, <3>2, <4>1 DEF NoNewPlace, StackPlace, FilePlace, PagePlace,
           FrontPlace, ArrowPlace, VarsPlace, At, From
    <3>3. CASE At("INITIAL", {14}) /\ q \in {15, 19}
      BY <2>2, <2>3, <2>6, <3>3 DEF NoNewPlace, StackPlace, FilePlace, PagePlace, FrontPlace,
         ArrowPlace, VarsPlace, At, From
    <3> QED
      BY <2>5, <3>1, <3>2, <3>3 DEF Quiet
  <2> QED
    BY <1>2, <2>2, <2>4, <2>5
<1>3. CASE Hung
  <2>1. ui'.vars.from = ui.vars.from
    <3>1. /\ ui.vars \in VarViews
          /\ ui'.vars = add_fetched(ui.vars, cs.message, cs.path_string)
      BY <1>3, EffectTypes, WidgetsKept DEF Widgets
    <3> QED
      BY <3>1 DEF add_fetched, VarViews
  <2>2. Unmoved
    BY <1>3, <2>1, NotesKept, WidgetsKept DEF Hung, GoesOn, ItemStep, Unmoved
  <2>3. NoNewPlace
    BY <1>3 DEF Hung, GoesOn, NoNewPlace, StackPlace, FilePlace, PagePlace, FrontPlace,
       ArrowPlace, VarsPlace, Calm, InList, At, From
  <2> QED
    BY <2>2, <2>3
<1>4. CASE Ended
  <2>1. SameNotes(cs, cs') /\ ui' = ui /\ cs'.server_state = "INPUT" /\ engine' = engine
    BY <1>4 DEF Ended, ItemStep
  <2>2. Unmoved
    BY <1>4, <2>1 DEF Ended, ItemStep, SameNotes, Unmoved
  <2>3. Calm' => ~ At("STOPPED", {3})
    BY <2>1 DEF Calm, PhaseOK, At
  <2>4. NoNewPlace
    BY <1>4, <2>1, <2>3 DEF Ended, NoNewPlace, StackPlace, FilePlace, PagePlace, FrontPlace,
       ArrowPlace, VarsPlace, At, From
  <2> QED
    BY <2>2, <2>4
<1>5. CASE Ignored \/ Resumed \/ Sent \/ Pressed
  <2>1. SameNotes(cs, cs') /\ ui' = ui
    BY <1>5, NotesKept, WidgetsKept
  <2>2. Unmoved
    BY <1>5, <2>1 DEF Ignored, Resumed, Got, Sent, Pressed, Clicked, SameNotes, Unmoved
  <2>3. /\ cs'.server_state = cs.server_state
        /\ InList => cs'.action_list_ptr = cs.action_list_ptr
    BY <1>5 DEF Ignored, Resumed, Sent, Pressed, SamePlace, InList
  <2>4. Calm' => Calm
    BY <1>5, <2>3, Rhythm DEF Calm, InList, Ignored, Got, Resumed, Sent, Pressed, Clicked
  <2>5. NoNewPlace
    BY <2>3, <2>4 DEF InList, NoNewPlace, StackPlace, FilePlace, PagePlace,
       FrontPlace, ArrowPlace, VarsPlace, At, From
  <2> QED
    BY <2>2, <2>5
<1>6. CASE Replied \/ Accepted \/ Continued \/ Left \/ Finished \/ Died \/ Idle
  <2>1. UNCHANGED <<conn, cs, ui>> /\ engine'.frames = engine.frames
        /\ engine'.stop = engine.stop
    BY <1>6 DEF Replied, Accepted, Continued, Left, Finished, Died, TakesOne, EngineActs,
       SameScript, Idle
  <2>2. Unmoved
    BY <2>1 DEF Unmoved
  <2>3. Calm' => Calm
    <3>1. CASE Replied \/ Accepted
      <4>1. toClient = << >> /\ engine'.phase = engine.phase
        BY <3>1, Rhythm DEF Replied, Accepted
      <4> QED
        BY <2>1, <4>1 DEF Calm, InList
    <3>2. CASE Continued \/ Left \/ Finished \/ Died
      BY <3>2 DEF Calm, Continued, Left, Finished, Died
    <3>3. CASE Idle
      BY <3>3 DEF Idle, Calm, InList
    <3> QED
      BY <1>6, <3>1, <3>2, <3>3
  <2>4. NoNewPlace
    BY <2>1, <2>3 DEF NoNewPlace, StackPlace, FilePlace, PagePlace,
       FrontPlace, ArrowPlace, VarsPlace, At, From
  <2> QED
    BY <2>2, <2>4
<1> QED
  BY <1>2, <1>3, <1>4, <1>5, <1>6

(* The file that is added has a page. *)
LEMMA AddedPage ==
  ASSUME IInv, Added, NEW f, f = cs.last_source_file
  PROVE  HasTab(f)'
<1> DEFINE page == [file |-> f, text |-> cs.message.data]
<1>1. CASE HasTab(f)
  BY <1>1 DEF Added, add_source_file, HasTab
<1>2. CASE ~ HasTab(f)
  <2>1. ui' = [ui EXCEPT !.tabs = Append(@, page), !.current = f]
    BY <1>2 DEF Added, add_source_file
  <2>2. page.file = f
    OBVIOUS
  <2> HIDE DEF page
  <2>3. ui.tabs \in Seq([file : Files, text : Files]) /\ ui'.tabs = Append(ui.tabs, page)
    BY <2>1, EffectTypes DEF Widgets
  <2>4. \E i \in DOMAIN ui'.tabs : ui'.tabs[i] = page
    BY <2>3
  <2> QED
    BY <2>2, <2>4 DEF HasTab
<1> QED
  BY <1>1, <1>2

(* In the middle of a list but STOPPED the script is at the stop; *)
LEMMA StopOfList ==
  ASSUME IInv, PhaseOK, conn = "open", StackPlace \/ Awaited = "stack_get"
  PROVE  /\ engine.frames \in Seq(Files) /\ engine.frames # << >>
         /\ engine.frames \in Stacks /\ 1 \in DOMAIN engine.frames
<1>1. engine.frames \in Stacks
  <2>1. CASE Calm
    BY <2>1 DEF Calm, PhaseOK
  <2>2. CASE ~ Calm
    <3>1. InList /\ cs.server_state # "STOPPED" /\ ~ Opening
      BY <2>2, EffectTypes DEF StackPlace, Awaited, At, From, InList, Opening
    <3> QED
      BY <3>1 DEF PhaseOK, AtStop
  <2> QED
    BY <2>1, <2>2
<1>2. engine.frames \in Seq(Files) /\ engine.frames # << >>
  BY <1>1, EngineAssumption
<1> QED
  BY <1>1, <1>2

(* the stack that is listed is the one of this stop; *)
LEMMA ShownWhenListed ==
  ASSUME IInv, Turns, PhaseOK, UpToDate, Shown, conn = "open", Listed
  PROVE  Shown'
<1>1. /\ At("INITIAL", {6}) \/ At("BREAK", {3})
      /\ cs'.server_state = cs.server_state
      /\ cs'.action_list_ptr = cs.action_list_ptr + 1
  BY DEF Listed, GoesOn
<1>2. /\ dispatching /\ conn' = "open" /\ engine' = engine
  BY Rhythm DEF Dispatching
<1>3. Awaited = "stack_get"
  BY <1>1 DEF Awaited, At
<1>4. cs.message.kind = "stack" /\ cs.message.data = Now
  BY <1>2, <1>3 DEF UpToDate, Current
<1>5. Frames(cs.message) = engine.frames
  BY <1>4 DEF Frames, Now
<1>6. engine.frames # << >> /\ 1 \in DOMAIN engine.frames
  BY <1>3, StopOfList
<1>7. /\ ui'.stack = Now /\ cs'.last_selected_stack_frame = 0
      /\ cs'.nr_of_stack_frames = Len(engine.frames)
  BY <1>4, <1>5, <1>6, NotesKept, WidgetsKept
<1>8. StackShown'
  BY <1>2, <1>6, <1>7 DEF StackShown, Now
<1>9. /\ ~ At("INITIAL", 1 .. 3)' /\ ~ FilePlace' /\ ~ PagePlace' /\ ~ FrontPlace'
      /\ ~ ArrowPlace' /\ ~ VarsPlace'
  BY <1>1 DEF At, From, FilePlace, PagePlace, FrontPlace, ArrowPlace, VarsPlace, Calm, InList
<1> QED
  BY <1>7, <1>8, <1>9 DEF Shown

(* a source that is noted is that of the selected frame; *)
LEMMA ShownWhenAdded ==
  ASSUME IInv, Turns, PhaseOK, Shown, conn = "open", Added
  PROVE  Shown'
<1>1. /\ At("INITIAL", {3, 9}) \/ At("BREAK", {6}) \/ At("SELECT_STACK", {4})
      /\ cs'.server_state = cs.server_state
      /\ cs'.action_list_ptr = cs.action_list_ptr + 1
  BY DEF Added, GoesOn
<1>2. conn' = "open" /\ engine' = engine
  BY Rhythm DEF Dispatching
<1>3. /\ cs'.last_selected_stack_frame = cs.last_selected_stack_frame
      /\ cs'.nr_of_stack_frames = cs.nr_of_stack_frames
      /\ ui'.arrows = ui.arrows /\ ui'.stack = ui.stack
  BY NotesKept, WidgetsKept
<1>4. \A f : f = cs.last_source_file => HasTab(f)'
  BY AddedPage
<1>5. PagePlace' => HasTab(Wanted)'
  <2>1. PagePlace' => FilePlace
    BY <1>1 DEF PagePlace, FilePlace, At
  <2>2. Wanted' = Wanted
    BY <1>2, <1>3 DEF Wanted
  <2> QED
    BY <2>1, <2>2, <1>4 DEF Shown, HasTab
<1>6. StackPlace' => StackShown'
  <2>1. StackPlace' => StackPlace
    BY <1>1 DEF StackPlace, Calm, InList, At, From
  <2> QED
    BY <1>2, <1>3, <2>1 DEF Shown, StackShown, Now
<1>7. From("INITIAL", 7)' \/ From("BREAK", 4)' => cs'.last_selected_stack_frame = 0
  <2>1. From("INITIAL", 7)' \/ From("BREAK", 4)' => From("INITIAL", 7) \/ From("BREAK", 4)
    BY <1>1 DEF At, From
  <2> QED
    BY <1>3, <2>1 DEF Shown
<1>8. ArrowPlace' => Marked' \in ui'.arrows
  <2>1. ArrowPlace' => ArrowPlace
    BY <1>1 DEF ArrowPlace, Calm, InList, At, From
  <2> QED
    BY <1>2, <1>3, <2>1 DEF Shown, Marked
<1>9. ~ At("INITIAL", 1 .. 3)' /\ ~ FilePlace' /\ ~ FrontPlace' /\ ~ VarsPlace'
  BY <1>1 DEF At, From, FilePlace, FrontPlace, VarsPlace, Calm, InList
<1> QED
  BY <1>5, <1>6, <1>7, <1>8, <1>9 DEF Shown

(* the variables are those of the selected frame. *)
LEMMA ShownWhenInspected ==
  ASSUME IInv, Turns, Conversation, PhaseOK, UpToDate, Shown, conn = "open", Inspected
  PROVE  Shown'
<1>1. /\ At("INITIAL", {13}) \/ At("BREAK", {10}) \/ At("SELECT_STACK", {8})
      /\ cs'.server_state = cs.server_state
      /\ cs'.action_list_ptr = cs.action_list_ptr + 1
  BY DEF Inspected, GoesOn
<1>2. /\ dispatching /\ conn' = "open" /\ engine' = engine
  BY Rhythm DEF Dispatching
<1>3. Awaited = "context_get"
  BY <1>1 DEF Awaited, At
<1>4. /\ SameNotes(cs, cs') /\ ui'.vars = VarView(cs.message)
      /\ ui'.tabs = ui.tabs /\ ui'.current = ui.current
      /\ ui'.arrows = ui.arrows /\ ui'.stack = ui.stack
  BY NotesKept, WidgetsKept
<1>5. /\ Now' = Now /\ Wanted' = Wanted /\ Marked' = Marked
      /\ StackShown => StackShown'
  BY <1>2, <1>4 DEF SameNotes, Now, Wanted, Marked, StackShown
<1>6. "context_get" \notin Refused => VarsShown'
  <2>1. SUFFICES ASSUME "context_get" \notin Refused PROVE VarsShown'
    OBVIOUS
  <2>2. /\ cs.message.kind # "error"
        /\ cs.message.data = [stop |-> engine.stop, level |-> cs.last_selected_stack_frame]
    BY <1>2, <1>3, <2>1 DEF UpToDate, Current
  <2>3. cs.message.kind = "context"
    BY <1>2, <1>3, <2>2 DEF Conversation, Answering
  <2>4. ui'.vars.from = cs.message.data
    BY <1>4, <2>3 DEF VarView
  <2> QED
    BY <1>2, <1>4, <2>2, <2>4 DEF VarsShown, SameNotes
<1>7. /\ StackPlace' => StackPlace
      /\ From("INITIAL", 7)' \/ From("BREAK", 4)' => From("INITIAL", 7) \/ From("BREAK", 4)
      /\ FrontPlace' => FrontPlace
      /\ ArrowPlace' => ArrowPlace
  BY <1>1 DEF StackPlace, FrontPlace, ArrowPlace, Calm, InList, At, From
<1>8. ~ At("INITIAL", 1 .. 3)' /\ ~ FilePlace' /\ ~ PagePlace'
  BY <1>1 DEF At, FilePlace, PagePlace
<1> QED
  BY <1>4, <1>5, <1>6, <1>7, <1>8 DEF Shown, SameNotes

(* Turning to the innermost frame, or noting its file; *)
LEMMA ShownWhenInnermost ==
  ASSUME IInv, Turns, PhaseOK, UpToDate, Shown, conn = "open", TurnedToInnermost
  PROVE  Shown'
<1> DEFINE f == engine.frames[1]
           first == At("INITIAL", {7}) \/ At("BREAK", {4})
<1>1. /\ At("INITIAL", {7, 11}) \/ At("BREAK", {4, 8})
      /\ cs'.server_state = cs.server_state
      /\ cs'.last_selected_stack_frame = cs.last_selected_stack_frame
      /\ cs'.nr_of_stack_frames = cs.nr_of_stack_frames
      /\ ui'.tabs = ui.tabs /\ ui'.stack = ui.stack
  BY DEF TurnedToInnermost, Turning
<1>2. /\ dispatching /\ conn' = "open" /\ engine' = engine
  BY Rhythm DEF Dispatching
<1>3. Awaited = "stack_get" /\ StackPlace
  BY <1>1 DEF Awaited, StackPlace, At, From
<1>4. cs.message.kind = "stack" /\ cs.message.data = Now
  BY <1>2, <1>3 DEF UpToDate, Current
<1>5. /\ Frames(cs.message) = engine.frames
      /\ Arrow(cs.message) = Marked
  BY <1>4 DEF Frames, Now, Arrow, Marked
<1>6. 1 \in DOMAIN engine.frames
  BY <1>3, StopOfList
<1>7. cs.last_selected_stack_frame = 0 /\ Wanted = f
  BY <1>1 DEF Shown, From, At, Wanted
<1>8. /\ Now' = Now /\ Wanted' = Wanted /\ Marked' = Marked /\ StackShown'
      /\ HasTab(f) => HasTab(Wanted)'
  BY <1>1, <1>2, <1>3, <1>7 DEF Now, Wanted, Marked, StackShown, Shown, HasTab
<1>9. /\ HasTab(f) => /\ cs'.action_list_ptr = cs.action_list_ptr + 1 + (IF first THEN 4 ELSE 0)
                      /\ ui'.current = f
                      /\ Marked \in ui'.arrows
      /\ ~ HasTab(f) => /\ cs'.action_list_ptr = cs.action_list_ptr + 1
                        /\ cs'.last_source_file = f
  BY <1>5, <1>6 DEF TurnedToInnermost, Turned, MovedArrow
<1>10. ~ VarsPlace' /\ ~ At("INITIAL", 1 .. 3)'
  BY <1>1, <1>9 DEF VarsPlace, At, From, Calm, InList
<1>11. CASE HasTab(f)
  <2>1. ~ FilePlace' /\ ~ PagePlace'
    BY <1>1, <1>9, <1>11 DEF FilePlace, PagePlace, At
  <2> QED
    BY <1>1, <1>7, <1>8, <1>9, <1>10, <1>11, <2>1 DEF Shown
<1>12. CASE ~ HasTab(f)
  <2>1. first
    <3>1. ~ PagePlace
      BY <1>7, <1>12 DEF Shown
    <3> QED
      BY <1>1, <3>1 DEF PagePlace, At
  <2>2. ~ PagePlace' /\ ~ FrontPlace' /\ ~ ArrowPlace'
    BY <1>1, <1>9, <1>12, <2>1 DEF PagePlace, FrontPlace, ArrowPlace, At, From, Calm, InList
  <2> QED
    BY <1>1, <1>7, <1>8, <1>9, <1>10, <1>12, <2>2 DEF Shown
<1> QED
  BY <1>11, <1>12

(* and to the selected one. *)
LEMMA ShownWhenSelected ==
  ASSUME IInv, Turns, PhaseOK, UpToDate, Shown, conn = "open", TurnedToSelected
  PROVE  Shown'
<1> DEFINE k == cs.last_selected_stack_frame + 1
           f == engine.frames[k]
           first == At("SELECT_STACK", {2})
<1>1. /\ At("SELECT_STACK", {2, 6})
      /\ cs'.server_state = cs.server_state
      /\ cs'.last_selected_stack_frame = cs.last_selected_stack_frame
      /\ cs'.nr_of_stack_frames = cs.nr_of_stack_frames
      /\ ui'.tabs = ui.tabs /\ ui'.stack = ui.stack
  BY DEF TurnedToSelected, Turning
<1>2. /\ dispatching /\ conn' = "open" /\ engine' = engine
  BY Rhythm DEF Dispatching
<1>3. Awaited = "stack_get" /\ StackPlace /\ ArrowPlace
  BY <1>1 DEF Awaited, StackPlace, ArrowPlace, At, From
<1>4. cs.message.kind = "stack" /\ cs.message.data = Now
  BY <1>2, <1>3 DEF UpToDate, Current
<1>5. Frames(cs.message) = engine.frames
  BY <1>4 DEF Frames, Now
<1>6. k \in DOMAIN engine.frames /\ Wanted = f
  BY <1>3 DEF Shown, StackShown, Wanted
<1>7. /\ Now' = Now /\ Wanted' = Wanted /\ Marked' = Marked /\ StackShown'
      /\ HasTab(f) => HasTab(Wanted)'
  BY <1>1, <1>2, <1>3, <1>6 DEF Now, Wanted, Marked, StackShown, Shown, HasTab
<1>8. /\ ui'.arrows = ui.arrows
      /\ HasTab(f) => /\ cs'.action_list_ptr = cs.action_list_ptr + 1 + (IF first THEN 4 ELSE 0)
                      /\ ui'.current = f
      /\ ~ HasTab(f) => /\ cs'.action_list_ptr = cs.action_list_ptr + 1
                        /\ cs'.last_source_file = f
  <2>1. Turned(k, first, ui.arrows)
    BY DEF TurnedToSelected
  <2> HIDE DEF first
  <2> QED
    BY <1>5, <1>6, <2>1 DEF Turned
<1>9. Marked' \in ui'.arrows
  BY <1>3, <1>7, <1>8 DEF Shown
<1>10. /\ ~ VarsPlace' /\ ~ At("INITIAL", 1 .. 3)'
       /\ ~ From("INITIAL", 7)' /\ ~ From("BREAK", 4)'
  BY <1>1, <1>8 DEF VarsPlace, At, From, Calm, InList
<1>11. CASE HasTab(f)
  <2>1. ~ FilePlace' /\ ~ PagePlace'
    BY <1>1, <1>8, <1>11 DEF FilePlace, PagePlace, At
  <2> QED
    BY <1>6, <1>7, <1>8, <1>9, <1>10, <1>11, <2>1 DEF Shown
<1>12. CASE ~ HasTab(f)
  <2>1. first
    <3>1. ~ PagePlace
      BY <1>6, <1>12 DEF Shown
    <3> QED
      BY <1>1, <3>1 DEF PagePlace, At
  <2>2. ~ PagePlace' /\ ~ FrontPlace'
    BY <1>1, <1>8, <1>12, <2>1 DEF PagePlace, FrontPlace, At, From, Calm, InList
  <2> QED
    BY <1>6, <1>7, <1>8, <1>9, <1>10, <1>12, <2>2 DEF Shown
<1> QED
  BY <1>11, <1>12

(* A list that begins has shown nothing yet. *)
LEMMA ShownWhenBegun ==
  ASSUME IInv, Turns, Shown, conn = "open", Begun
  PROVE  Shown'
<1>1. /\ cs'.action_list_ptr = 1
      /\ cs'.server_state \in {"INITIAL", "BREAK", "STOPPED"}
      /\ cs'.server_state = "INITIAL" => Head(toClient).kind = "init"
  BY DEF Begun
<1>2. cs'.server_state = "INITIAL" => cs'.last_source_file \in Files
  <2>1. Head(toClient) \in Messages
    BY Rhythm
  <2>2. Head(toClient).kind = "init" => Head(toClient).data \in Files
    BY <2>1 DEF Messages
  <2> QED
    BY <1>1, <2>2, NotesKept
<1>3. /\ ~ StackPlace' /\ ~ FilePlace' /\ ~ PagePlace' /\ ~ FrontPlace'
      /\ ~ ArrowPlace' /\ ~ VarsPlace'
      /\ ~ From("INITIAL", 7)' /\ ~ From("BREAK", 4)'
  BY <1>1 DEF At, From, StackPlace, FilePlace, PagePlace, FrontPlace, ArrowPlace, VarsPlace,
     Calm, InList
<1> QED
  BY <1>2, <1>3 DEF Shown, At

(* A patient user clicks where all is shown. *)
LEMMA ShownWhenClicked ==
  ASSUME IInv, Turns, PhaseOK, Shown, Patient, Cooperative, conn = "open",
         FrameChosen \/ RowChosen
  PROVE  Shown'
<1>1. /\ Settled /\ conn' = "open" /\ engine' = engine
  BY Rhythm DEF ByUser
<1>2. Calm /\ toClient = << >> /\ engine.phase = "break"
  BY <1>1 DEF Settled, Calm, InList
<1>3. /\ StackShown /\ ui.current = Wanted /\ Marked \in ui.arrows
      /\ "context_get" \notin Refused => VarsShown
  BY <1>2 DEF Shown, StackPlace, FrontPlace, ArrowPlace, VarsPlace
<1>4. /\ ui'.tabs = ui.tabs /\ ui'.current = ui.current /\ ui'.arrows = ui.arrows
      /\ ui'.stack = ui.stack /\ ui'.vars.from = ui.vars.from
      /\ cs'.nr_of_stack_frames = cs.nr_of_stack_frames
  BY NotesKept, WidgetsKept
<1>5. /\ cs'.action_list_ptr = 1
      /\ ~ At("INITIAL", 1 .. 3)' /\ ~ FilePlace' /\ ~ PagePlace'
      /\ ~ From("INITIAL", 7)' /\ ~ From("BREAK", 4)'
  BY DEF FrameChosen, RowChosen, At, From, FilePlace, PagePlace
<1>6. CASE RowChosen
  <2>1. cs'.last_selected_stack_frame = cs.last_selected_stack_frame
    BY <1>6, NotesKept
  <2>2. /\ Now' = Now /\ Wanted' = Wanted /\ Marked' = Marked
        /\ StackShown' /\ (VarsShown => VarsShown')
    BY <1>1, <1>3, <1>4, <2>1 DEF Now, Wanted, Marked, StackShown, VarsShown
  <2> QED
    BY <1>3, <1>4, <1>5, <2>2 DEF Shown
<1>7. CASE FrameChosen
  <2>1. PICK row \in DOMAIN ui.stack.frames : cs'.last_selected_stack_frame = AsChar(row - 1)
    BY <1>7, NotesKept
  <2>2. ui.stack.frames = engine.frames
    BY <1>3 DEF StackShown, Now
  <2>3. engine.frames \in Seq(Files) /\ Len(engine.frames) <= 128
    BY <1>2, EngineAssumption DEF PhaseOK, Cooperative
  <2>4. row \in 1 .. 128
    <3>1. row \in DOMAIN engine.frames
      BY <2>1, <2>2
    <3>2. row \in 1 .. Len(engine.frames) /\ Len(engine.frames) \in Nat
      BY <2>3, <3>1
    <3>3. \A n \in Nat : n <= 128 /\ row \in 1 .. n => row \in 1 .. 128
      OBVIOUS
    <3> QED
      BY <2>3, <3>2, <3>3
  <2>5. AsChar(row - 1) = row - 1
    BY <2>4 DEF AsChar
  <2>6. cs'.last_selected_stack_frame + 1 = row
    BY <2>1, <2>4, <2>5
  <2>7. Marked' = Marked /\ StackShown'
    BY <1>1, <1>3, <1>4, <2>1, <2>2, <2>6 DEF Now, Marked, StackShown
  <2>8. ~ FrontPlace' /\ ~ VarsPlace'
    BY <1>7 DEF FrameChosen, FrontPlace, VarsPlace, From, Calm, InList
  <2> QED
    BY <1>3, <1>4, <1>5, <2>7, <2>8 DEF Shown
<1> QED
  BY <1>6, <1>7

(* A stop is announced where nothing of it is shown. *)
LEMMA ShownWhenStopped ==
  ASSUME IInv, Turns, Conversation, PhaseOK, Shown, conn = "open", Stopped
  PROVE  Shown'
<1>1. UNCHANGED <<conn, cs, ui>> /\ toClient = << >> /\ engine.phase = "running"
  BY Rhythm DEF Stopped, EngineActs
<1>2. toClient' # << >> /\ Head(toClient').kind = "break"
  <2>1. PICK m \in Messages : toClient' = Append(toClient, m) /\ m.kind = "break"
    BY DEF Stopped
  <2> QED
    BY <1>1, <2>1
<1>3. InList => At("INITIAL", {5}) \/ At("STOPPED", {3})
  BY <1>1, ContinuePlaces DEF Conversation
<1>4. /\ ~ Calm' /\ (InList => InList') /\ cs'.server_state = cs.server_state
      /\ cs'.action_list_ptr = cs.action_list_ptr
  BY <1>1, <1>2 DEF Calm, InList
<1>5. /\ ~ StackPlace' /\ ~ FilePlace' /\ ~ PagePlace' /\ ~ FrontPlace'
      /\ ~ ArrowPlace' /\ ~ VarsPlace'
      /\ ~ From("INITIAL", 7)' /\ ~ From("BREAK", 4)' /\ ~ At("INITIAL", 1 .. 3)'
  BY <1>3, <1>4 DEF At, From, StackPlace, FilePlace, PagePlace, FrontPlace, ArrowPlace,
     VarsPlace, InList
<1> QED
  BY <1>5 DEF Shown

(* Together: *)
LEMMA ShownKept ==
  ASSUME IInv, Turns, Conversation, PhaseOK, UpToDate, Shown, Patient, Cooperative,
         Dispatching \/ OnWire \/ ByUser \/ ByEngine \/ Idle
  PROVE  Shown'
<1>1. CASE conn = "open"
  <2>1. CASE \/ Issued \/ Quiet \/ Hung \/ Ended \/ Ignored \/ Resumed \/ Sent \/ Pressed
             \/ Replied \/ Accepted \/ Continued \/ Left \/ Finished \/ Died \/ Idle
    BY <1>1, <2>1, PlainSteps, ShownStays
  <2>2. CASE Parted
    BY <2>2 DEF Parted, Shown
  <2>3. ~ Opened
    BY <1>1 DEF Opened
  <2> QED
    BY <1>1, <2>1, <2>2, <2>3, ShownWhenListed, ShownWhenAdded, ShownWhenInspected,
       ShownWhenInnermost, ShownWhenSelected, ShownWhenBegun, ShownWhenClicked,
       ShownWhenStopped DEF Dispatching, OnWire, ByUser, ByEngine
<1>2. CASE conn # "open"
  <2>1. CASE Opened
    <3>1. cs'.server_state = "INPUT" /\ engine'.phase = "starting"
      BY <2>1 DEF Opened, NewClientState
    <3> QED
      BY <3>1 DEF Shown, At, From, StackPlace, FilePlace, PagePlace, FrontPlace, ArrowPlace,
         VarsPlace, Calm, InList
  <2>2. CASE ByEngine \/ Idle
    BY <1>2, <2>2 DEF Shown, ByEngine, Replied, Accepted, Continued, Left, Stopped,
       Finished, Died, TakesOne, EngineActs, Idle
  <2> QED
    BY <1>2, <2>1, <2>2, Unconnected
<1> QED
  BY <1>1, <1>2

(* With a patient user and a cooperative engine all of this always holds. *)
LEMMA ShownAlways ==
  ASSUME Patient, Cooperative
  PROVE  Spec => [](UpToDate /\ Shown)
<1>1. Init => UpToDate /\ Shown
  BY DEF Init, ClientInit, UpToDate, Shown
<1>2. IInv /\ Turns /\ Conversation /\ PhaseOK /\ UpToDate /\ Shown /\ [Next]_vars
         => (UpToDate /\ Shown)'
  BY StepEffects, UpToDateKept, ShownKept
<1> QED
  BY <1>1, <1>2, Invariance, TakingTurns, ConversationAlways, PhaseAlways, PTL DEF Spec
-----------------------------------------------------------------------------
(* Each item is handed the answer to the command its list issued last. *)
LEMMA ItemHasItsReply ==
  ASSUME IInv, Turns, Conversation, UpToDate, Cooperative
  PROVE  HandlerGetsItsReply
<1> SUFFICES ASSUME dispatching, CurrentItem.func \in DOMAIN Uses
             PROVE  LET kind == Uses[CurrentItem.func]
                    IN  /\ cs.message.tid = cs.last_tid
                        /\ \/ cs.message.kind = kind
                           \/ cs.message.kind = "error" /\ RequestFor[kind] \in Refused
  BY DEF HandlerGetsItsReply
<1> DEFINE func == CurrentItem.func
           m    == cs.message
<1>1. /\ conn = "open" /\ m \in Messages /\ m # NULL
      /\ Answering(m) /\ Current(m)
  BY NullAssumption DEF IInv, Reading, Conversation, UpToDate
<1>2. m.kind = "init" \/ m.tid = cs.last_tid
  <2>1. Answered = cs.last_tid
    BY <1>1 DEF Turns, Due
  <2> QED
    BY <1>1, <2>1 DEF Answered
<1>3. CASE func = "process_add_source_file"
  <2>1. Awaited = "source"
    BY <1>3, Where DEF Awaited, At
  <2> QED
    BY <1>1, <1>2, <1>3, <2>1 DEF Uses, RequestFor, Answering, Current
<1>4. CASE func = "process_fetched_property"
  <2>1. Awaited = "property_get"
    BY <1>4, Where DEF Awaited, At
  <2> QED
    BY <1>1, <1>2, <1>4, <2>1 DEF Uses, RequestFor, Answering, Current
<1>5. CASE func = "process_update_context_vars_for_selected_stack"
  <2>1. Awaited = "context_get"
    BY <1>5, Where DEF Awaited, At
  <2> QED
    BY <1>1, <1>2, <1>5, <2>1 DEF Uses, RequestFor, Answering, Current
<1>6. CASE func \in { "process_update_stack",
                      "process_select_file_line_for_stack_0",
                      "process_select_file_line_for_stack_0_no_check",
                      "process_select_file_line_for_selected_stack",
                      "process_select_file_line_for_selected_stack_no_check" }
  <2>1. Awaited = "stack_get"
    BY <1>6, Where DEF Awaited, At
  <2>2. Uses[func] = "stack"
    BY <1>6 DEF Uses
  <2> QED
    BY <1>1, <1>2, <2>1, <2>2 DEF Current
<1>7. func \in DOMAIN Uses =>
         func \in { "process_add_source_file", "process_fetched_property",
                    "process_update_context_vars_for_selected_stack",
                    "process_update_stack",
                    "process_select_file_line_for_stack_0",
                    "process_select_file_line_for_stack_0_no_check",
                    "process_select_file_line_for_selected_stack",
                    "process_select_file_line_for_selected_stack_no_check" }
  BY DEF Uses
<1> QED
  BY <1>3, <1>4, <1>5, <1>6, <1>7

(***************************************************************************)
(* Nothing but the order ties an answer to the list item that uses it; yet *)
(* with a patient user and a cooperative engine process_state_init hands   *)
(* every item the answer it is written for.                                *)
(***************************************************************************)
THEOREM HandlersGetTheirReplies ==
  ASSUME Patient, Cooperative
  PROVE  Spec => []HandlerGetsItsReply
<1>1. IInv /\ Turns /\ Conversation /\ UpToDate => HandlerGetsItsReply
  BY ItemHasItsReply
<1> QED
  BY <1>1, Invariance, TakingTurns, ConversationAlways, ShownAlways, PTL

(* Waiting for the user, the client is at a calm stop. *)
LEMMA SettledShows ==
  ASSUME IInv, PhaseOK, Shown, Settled
  PROVE  /\ ui.stack = Now /\ cs.nr_of_stack_frames = Len(engine.frames)
         /\ ui.current = Wanted /\ Marked \in ui.arrows
         /\ "context_get" \notin Refused => VarsShown
         /\ engine.frames \in Seq(Files) /\ engine.frames # << >>
<1>1. conn = "open" /\ Calm
  BY DEF Settled, Calm, InList
<1>2. StackPlace /\ FrontPlace /\ ArrowPlace /\ VarsPlace
  BY <1>1 DEF StackPlace, FrontPlace, ArrowPlace, VarsPlace
<1> QED
  BY <1>1, <1>2, StopOfList DEF Shown, StackShown

(***************************************************************************)
(* When the client waits for the user, the stack view, the variable view   *)
(* and the notebook show where the script is, however the session came     *)
(* there; context_get must not be refused, for the view has nothing to     *)
(* show then.                                                              *)
(***************************************************************************)
THEOREM ViewsShowTheStop ==
  ASSUME Patient, Cooperative, "context_get" \notin Refused
  PROVE  Spec => []ViewsAgree
<1>1. IInv /\ PhaseOK /\ Shown => ViewsAgree
  BY SettledShows DEF ViewsAgree, Now, Wanted, VarsShown
<1> QED
  BY <1>1, Invariance, PhaseAlways, ShownAlways, PTL

(* The arrow is at this stop, and no session leaves more than one behind. *)
THEOREM ArrowMarksTheStop ==
  ASSUME Patient, Cooperative
  PROVE  Spec => []OneArrowPerSession
<1>1. IInv /\ ArrowsCounted /\ PhaseOK /\ Shown => OneArrowPerSession
  BY ArrowsBounded, SettledShows DEF OneArrowPerSession, Marked
<1> QED
  BY <1>1, Invariance, ArrowsAlways, PhaseAlways, ShownAlways, PTL
-----------------------------------------------------------------------------
(* The four ways for the process to die, *)
LEMMA Faults ==
  ASSUME [Next]_vars, fault' # fault
  PROVE  \/ process_add_source_file_crash \/ process_fetched_property_crash
         \/ Clicks /\ (process_a_button_no_frames \/ process_a_button_no_connection)
<1>1. CASE Connect
  BY <1>1 DEF Connect, async_accept
<1>2. CASE UserPresses \/ UserSelectsFrame \/ UserSelectsVariable
  BY <1>2 DEF UserPresses, UserSelectsFrame, UserSelectsVariable, process_a_button,
     stack_selection_function, varview_selection_function
<1>3. CASE SocketReadable
  BY <1>3 DEF SocketReadable, ReadStep, process_state_input_init, process_state_input_break,
     process_state_input_stopped, process_state_input_other, process_request, Reads
<1>4. CASE SocketWritable \/ SocketError
  BY <1>4 DEF SocketWritable, SocketError, IoWrite, IoError
<1>5. CASE Dispatches
  BY <1>5 DEF Dispatches, DispatchStep, do_context_get, do_run, do_set_error_breakpoint,
     do_set_feature, do_source_get, do_stack_get, do_step_into, Issues,
     process_add_source_file, process_fetched_property, process_jump,
     process_mark_buttons_active, process_mark_buttons_inactive,
     process_select_file_line_for_stack_0, process_select_file_line_for_selected_stack,
     process_update_context_vars_for_selected_stack, process_update_stack, EndOfList
<1>6. CASE EngineStep \/ EngineFails
  BY <1>6 DEF EngineStep, EngineFails, clientVars
<1>7. CASE UserPressesTooEarly \/ UserPressesUnconnected
  BY <1>7 DEF UserPressesTooEarly, UserPressesUnconnected
<1>8. CASE UNCHANGED vars
  BY <1>8 DEF vars, clientVars
<1> QED
  BY <1>1, <1>2, <1>3, <1>4, <1>5, <1>6, <1>7, <1>8 DEF Next

(* none of which comes about when the source of a file is not refused. *)
LEMMA NoFault ==
  ASSUME IInv, Turns, Conversation, PhaseOK, UpToDate, Shown, Patient, Cooperative,
         "source" \notin Refused, [Next]_vars
  PROVE  fault' = fault
<1>1. dispatching => conn = "open" /\ Answering(cs.message) /\ Current(cs.message)
  BY DEF IInv, Reading, Conversation, UpToDate
<1>2. ~ process_add_source_file_crash
  <2> SUFFICES ASSUME process_add_source_file_crash PROVE FALSE
    OBVIOUS
  <2>1. /\ dispatching /\ CurrentItem.func = "process_add_source_file"
        /\ cs.message.kind # "source" \/ cs.last_source_file = NULL
    BY DEF process_add_source_file_crash, Runs
  <2>2. At("INITIAL", {3, 9}) \/ At("BREAK", {6}) \/ At("SELECT_STACK", {4})
    BY <2>1, Where
  <2>3. Awaited = "source"
    BY <2>2 DEF Awaited, At
  <2>4. cs.message.kind = "source"
    BY <1>1, <2>1, <2>3 DEF Answering, Current
  <2>5. cs.last_source_file \in Files
    <3>1. CASE At("INITIAL", {3})
      BY <1>1, <2>1, <3>1 DEF Shown, At
    <3>2. CASE ~ At("INITIAL", {3})
      <4>1. FilePlace /\ StackPlace
        BY <2>2, <3>2 DEF FilePlace, StackPlace, At, From
      <4>2. /\ cs.last_source_file = engine.frames[cs.last_selected_stack_frame + 1]
            /\ cs.last_selected_stack_frame + 1 \in DOMAIN engine.frames
            /\ engine.frames \in Seq(Files)
        BY <1>1, <2>1, <4>1, StopOfList DEF Shown, StackShown, Wanted
      <4> QED
        BY <4>2, Elements
    <3> QED
      BY <3>1, <3>2
  <2> QED
    BY <2>1, <2>4, <2>5, WireAssumption
<1>3. ~ process_fetched_property_crash
  <2> SUFFICES ASSUME process_fetched_property_crash PROVE FALSE
    OBVIOUS
  <2>1. /\ dispatching /\ CurrentItem.func = "process_fetched_property"
        /\ HasNoChild(cs.message)
    BY DEF process_fetched_property_crash, Runs
  <2>2. Awaited = "property_get"
    BY <2>1, Where DEF Awaited, At
  <2>3. cs.message.kind \in {"error", "property"}
    BY <1>1, <2>1, <2>2 DEF Answering
  <2> QED
    BY <2>1, <2>3 DEF HasNoChild
<1>4. ~ (Clicks /\ (process_a_button_no_frames \/ process_a_button_no_connection))
  <2> SUFFICES ASSUME Clicks, process_a_button_no_frames \/ process_a_button_no_connection
               PROVE  FALSE
    OBVIOUS
  <2>1. Settled /\ conn = "open"
    BY DEF Clicks, Settled
  <2>2. /\ engine.frames \in Seq(Files) /\ engine.frames # << >>
        /\ cs.nr_of_stack_frames = Len(engine.frames)
    BY <2>1, SettledShows
  <2>3. cs.nr_of_stack_frames # 0
    BY <2>2
  <2> QED
    BY <2>1, <2>3 DEF process_a_button_no_frames, process_a_button_no_connection
<1> QED
  BY <1>2, <1>3, <1>4, Faults

(***************************************************************************)
(* No document makes the client read a part it does not have, and no click *)
(* comes before the frames: with a patient user and an engine that has the *)
(* sources, neither process_add_source_file nor process_fetched_property   *)
(* nor process_a_button ever dereferences what is not there.               *)
(***************************************************************************)
THEOREM PatientUsersDoNotCrash ==
  ASSUME Patient, Cooperative, "source" \notin Refused
  PROVE  Spec => []NoCrash
<1>1. Init => NoCrash
  BY DEF Init, ClientInit, NoCrash
<1>2. IInv /\ Turns /\ Conversation /\ PhaseOK /\ UpToDate /\ Shown /\ NoCrash /\ [Next]_vars
         => NoCrash'
  BY NoFault DEF NoCrash
<1> QED
  BY <1>1, <1>2, Invariance, TakingTurns, ConversationAlways, PhaseAlways, ShownAlways, PTL
     DEF Spec
-----------------------------------------------------------------------------
(***************************************************************************)
(* What the engine has been told of breakpoints and limits, by how far the *)
(* list that opens a session has been acknowledged.                        *)
(***************************************************************************)
Reached ==
    IF dispatching \/ toClient # << >> THEN cs.action_list_ptr ELSE cs.action_list_ptr - 1

Prepared(r) ==
    /\ r <= 15 => engine.breakpoints = {}
    /\ r \in 16 .. 18 => engine.breakpoints = 1 .. (r - 15)
    /\ r >= 19 => engine.breakpoints \in {{}, 1 .. 4}
    /\ r <= 19 => engine.features = {}
    /\ r = 20 => engine.features = {1}
    /\ r = 21 => engine.features = {1, 3}
    /\ r >= 22 => engine.features = 1 .. 3

SetUp == engine.features = 1 .. 3 /\ engine.breakpoints \in {{}, 1 .. 4}

Configured ==
    conn = "open" /\ engine.phase # "gone" =>
       IF cs.server_state = "INITIAL" THEN Prepared(Reached)
       ELSE IF engine.phase = "starting"
       THEN engine.breakpoints = {} /\ engine.features = {}
       ELSE SetUp

(* An item moves on, but acknowledges nothing; *)
LEMMA ConfiguredKeptByItems ==
  ASSUME IInv, Turns, PhaseOK, Configured, conn = "open", Dispatching
  PROVE  Configured'
<1> SUFFICES ASSUME engine'.phase # "gone" PROVE Configured'
  BY DEF Configured
<1> DEFINE p == cs.action_list_ptr
<1>1. /\ dispatching /\ InList /\ engine' = engine /\ toClient' = << >> /\ p \in Nat
  BY Rhythm, EffectTypes
<1>2. Reached = p
  BY <1>1 DEF Reached
<1>3. CASE cs.server_state # "INITIAL"
  <2>1. cs'.server_state # "INITIAL"
    BY <1>3 DEF Dispatching, Issued, Quiet, Added, Hung, Listed, Inspected, GoesOn,
       TurnedToInnermost, TurnedToSelected, Turning, Ended
  <2> QED
    BY <1>1, <1>3, <2>1 DEF Configured, SetUp
<1>4. CASE cs.server_state = "INITIAL" /\ Ended
  <2>1. At("INITIAL", {23}) /\ cs'.server_state = "INPUT"
    BY <1>4 DEF Ended, At
  <2>2. engine.phase # "starting"
    BY <1>1, <2>1 DEF PhaseOK, Opening, AtStop, At
  <2>3. SetUp
    BY <1>1, <1>2, <1>4, <2>1 DEF Configured, Prepared, SetUp, At
  <2> QED
    BY <1>1, <2>1, <2>2, <2>3 DEF Configured, SetUp
<1>5. CASE cs.server_state = "INITIAL" /\ ~ Ended
  <2>1. /\ cs'.server_state = "INITIAL"
        /\ \/ Reached' = p
           \/ p <= 14 /\ Reached' \in 0 .. 15
           \/ p = 14 /\ Reached' = 19
           \/ p = 22 /\ Reached' = 23
    <3>1. CASE Issued
      BY <1>1, <1>5, <3>1 DEF Issued, Reached
    <3>2. CASE Quiet
      BY <1>1, <1>5, <3>2 DEF Quiet, GoesOn, Reached, At
    <3>3. CASE Added \/ Hung \/ Listed \/ Inspected
      BY <1>1, <1>5, <3>3 DEF Added, Hung, Listed, Inspected, GoesOn, Reached, At
    <3>4. CASE TurnedToInnermost \/ TurnedToSelected
      <4>1. /\ cs'.server_state = "INITIAL" /\ At("INITIAL", {7, 11})
            /\ cs'.action_list_ptr \in {p + 1, p + 5}
            /\ cs'.action_list_ptr = p + 5 => At("INITIAL", {7})
        BY <1>1, <1>5, <3>4 DEF TurnedToInnermost, TurnedToSelected, Turning, Turned, At
      <4>2. Reached' \in 0 .. 15 /\ p <= 14
        BY <1>1, <4>1 DEF Reached, At
      <4> QED
        BY <4>1, <4>2
    <3> QED
      BY <1>5, <3>1, <3>2, <3>3, <3>4 DEF Dispatching
  <2>2. Prepared(p)
    BY <1>1, <1>2, <1>5 DEF Configured
  <2>3. Prepared(Reached)'
    <3>1. CASE Reached' = p
      BY <1>1, <2>2, <3>1 DEF Prepared
    <3>2. CASE p <= 14 /\ Reached' \in 0 .. 15
      BY <1>1, <2>2, <3>2 DEF Prepared
    <3>3. CASE p = 14 /\ Reached' = 19
      BY <1>1, <2>2, <3>3 DEF Prepared
    <3>4. CASE p = 22 /\ Reached' = 23
      BY <1>1, <2>2, <3>4 DEF Prepared
    <3> QED
      BY <2>1, <3>1, <3>2, <3>3, <3>4
  <2> QED
    BY <2>1, <2>3 DEF Configured
<1> QED
  BY <1>3, <1>4, <1>5

(* nor does what is read, written or clicked. *)
LEMMA ConfiguredKeptByClient ==
  ASSUME IInv, Turns, PhaseOK, Configured, Patient, conn = "open", OnWire \/ ByUser
  PROVE  Configured'
<1>1. CASE Begun
  <2>1. /\ ~ InList /\ dispatching' /\ cs'.action_list_ptr = 1 /\ engine' = engine
        /\ toClient # << >> /\ cs.server_state = "INPUT"
    BY <1>1, Rhythm DEF Begun, InList
  <2>2. Head(toClient).kind = "init" =>
           engine.phase \in {"starting", "gone"} /\ cs'.server_state = "INITIAL"
    BY <1>1, <2>1 DEF Begun, PhaseOK, NextDocument
  <2>3. Head(toClient).kind # "init" => cs'.server_state # "INITIAL"
    BY <1>1 DEF Begun
  <2>4. Reached' = 1
    BY <2>1 DEF Reached
  <2>5. engine.breakpoints = {} /\ engine.features = {} => Prepared(Reached)'
    BY <2>1, <2>4 DEF Prepared
  <2> QED
    BY <2>1, <2>2, <2>3, <2>5 DEF Configured, SetUp
<1>2. CASE Ignored
  <2>1. engine' = engine /\ cs.server_state = "INPUT" /\ cs'.server_state = "INPUT"
    BY <1>2, Rhythm DEF Ignored, InList
  <2> QED
    BY <2>1 DEF Configured, SetUp
<1>3. CASE Resumed \/ Sent
  <2>1. /\ engine' = engine /\ cs'.server_state = cs.server_state
        /\ cs'.action_list_ptr = cs.action_list_ptr
    BY <1>3, Rhythm DEF Resumed, Sent, SamePlace
  <2>2. Reached' = Reached
    BY <1>3, <2>1, Rhythm DEF Reached, Resumed, Sent, SamePlace
  <2>3. Prepared(Reached) => Prepared(Reached)'
    BY <2>1, <2>2 DEF Prepared
  <2> QED
    BY <2>1, <2>3 DEF Configured, SetUp
<1>4. CASE Parted
  BY <1>4 DEF Parted, Configured
<1>5. ~ Opened
  BY DEF Opened
<1>6. CASE ByUser
  <2>1. engine' = engine /\ cs.server_state = "INPUT"
    BY <1>6, Rhythm DEF Settled
  <2>2. cs'.server_state # "INITIAL"
    BY <1>6, <2>1 DEF ByUser, Pressed, SamePlace, FrameChosen, RowChosen
  <2> QED
    BY <2>1, <2>2 DEF Configured, SetUp
<1> QED
  BY <1>1, <1>2, <1>3, <1>4, <1>5, <1>6 DEF OnWire

(* The engine takes in what it acknowledges. *)
LEMMA ConfiguredKeptByEngine ==
  ASSUME IInv, Turns, Conversation, PhaseOK, Configured, conn = "open", ByEngine,
         "breakpoint_set" \notin Refused, "feature_set" \notin Refused
  PROVE  Configured'
<1> SUFFICES ASSUME engine'.phase # "gone" PROVE Configured'
  BY DEF Configured
<1> DEFINE p == cs.action_list_ptr
<1>1. UNCHANGED <<conn, dispatching, cs>> /\ p \in Nat
  BY Rhythm, EffectTypes
<1>2. engine.phase # "gone" /\ toClient = << >> /\ ~ dispatching
  <2>1. CASE Replied \/ Accepted \/ Continued \/ Left
    BY <2>1, Rhythm DEF Replied, Accepted, Continued, Left, TakesOne
  <2>2. CASE Stopped \/ Finished
    BY <2>2, Rhythm DEF Stopped, Finished
  <2> QED
    BY <2>1, <2>2 DEF ByEngine, Died
<1>3. cs.server_state # "INITIAL" => engine.phase # "starting"
  BY <1>2 DEF PhaseOK, Opening, AtStop, At, InList
<1>4. /\ cs.server_state = "INITIAL" => Prepared(p - 1)
      /\ cs.server_state # "INITIAL" => SetUp
  BY <1>2, <1>3 DEF Configured, Reached
<1>5. Reached' = IF toClient' = << >> THEN p - 1 ELSE p
  BY <1>1, <1>2 DEF Reached
<1>6. CASE Accepted
  <2>1. /\ toEngine # << >> /\ Head(toEngine) = Asked
        /\ Asked.verb \in {"breakpoint_set", "feature_set"}
        /\ toClient' # << >>
    BY <1>2, <1>6, Rhythm, EffectTypes DEF Accepted
  <2>2. Asking(Asked) /\ InList /\ Asked.verb = Awaited
    BY <2>1 DEF Conversation, Asking, ButtonVerbs, ContinueVerbs, EndVerbs
  <2>3. CASE Asked.verb = "breakpoint_set"
    <3>1. At("INITIAL", 16 .. 19) /\ Asked.arg = p - 15
      BY <2>2, <2>3 DEF Asking, Awaited
    <3>2. /\ engine'.breakpoints = engine.breakpoints \cup {p - 15}
          /\ engine'.features = engine.features
      BY <1>6, <2>3, <3>1 DEF Accepted
    <3>3. p \in 16 .. 19 /\ cs.server_state = "INITIAL" /\ Reached' = p
      BY <1>5, <2>1, <3>1 DEF At
    <3>4. engine.breakpoints = 1 .. (p - 16) /\ engine.features = {}
      <4>1. Prepared(p - 1)
        BY <1>4, <3>3
      <4>2. CASE p = 16
        BY <4>1, <4>2 DEF Prepared
      <4>3. CASE p \in 17 .. 19
        BY <4>1, <4>3 DEF Prepared
      <4> QED
        BY <3>3, <4>2, <4>3
    <3>5. engine'.breakpoints = 1 .. (p - 15) /\ engine'.features = {}
      BY <3>2, <3>3, <3>4
    <3>6. Prepared(Reached)'
      BY <3>3, <3>5 DEF Prepared
    <3> QED
      BY <1>1, <3>3, <3>6 DEF Configured
  <2>4. CASE Asked.verb = "feature_set"
    <3>1. At("INITIAL", 20 .. 22)
          /\ Asked.arg = (IF p = 20 THEN 1 ELSE IF p = 21 THEN 3 ELSE 2)
      BY <2>2, <2>4 DEF Asking, Awaited
    <3>2. /\ engine'.breakpoints = engine.breakpoints
          /\ engine'.features = engine.features \cup {Asked.arg}
      BY <1>6, <2>4 DEF Accepted
    <3>3. p \in 20 .. 22 /\ cs.server_state = "INITIAL" /\ Reached' = p
      BY <1>5, <2>1, <3>1 DEF At
    <3>4. /\ engine.breakpoints \in {{}, 1 .. 4}
          /\ engine.features = IF p = 20 THEN {} ELSE IF p = 21 THEN {1} ELSE {1, 3}
      <4>1. Prepared(p - 1)
        BY <1>4, <3>3
      <4>2. CASE p = 20
        BY <4>1, <4>2 DEF Prepared
      <4>3. CASE p = 21
        BY <4>1, <4>3 DEF Prepared
      <4>4. CASE p = 22
        BY <4>1, <4>4 DEF Prepared
      <4> QED
        BY <3>3, <4>2, <4>3, <4>4
    <3>5. engine'.features = IF p = 20 THEN {1} ELSE IF p = 21 THEN {1, 3} ELSE 1 .. 3
      BY <3>1, <3>2, <3>3, <3>4
    <3>6. Prepared(Reached)'
      <4>1. CASE p = 20
        BY <3>2, <3>3, <3>4, <3>5, <4>1 DEF Prepared
      <4>2. CASE p = 21
        BY <3>2, <3>3, <3>4, <3>5, <4>2 DEF Prepared
      <4>3. CASE p = 22
        BY <3>2, <3>3, <3>4, <3>5, <4>3 DEF Prepared
      <4> QED
        BY <3>3, <4>1, <4>2, <4>3
    <3> QED
      BY <1>1, <3>3, <3>6 DEF Configured
  <2> QED
    BY <2>1, <2>3, <2>4
<1>7. CASE Replied
  <2>1. /\ toEngine # << >> /\ Head(toEngine) = Asked /\ Asked \in Commands
        /\ engine' = engine
    BY <1>7, Rhythm, EffectTypes DEF Replied, TakesOne
  <2>2. Asked.verb # "breakpoint_set" /\ Asked.verb # "feature_set" /\ Asked.verb # "none"
    <3>1. PICK m : Answers(Asked, m)
      BY <1>7 DEF Replied
    <3>2. Asked.verb # "none"
      BY <2>1 DEF Commands, ButtonVerbs, ContinueVerbs, EndVerbs
    <3> QED
      BY <3>1, <3>2 DEF Answers, TurnsDown
  <2>3. cs.server_state = "INITIAL" => p <= 15
    <3> SUFFICES ASSUME cs.server_state = "INITIAL" PROVE p <= 15
      OBVIOUS
    <3>1. Asked.verb = Awaited
      BY <2>1 DEF Conversation, Asking, InList
    <3> QED
      BY <2>2, <3>1 DEF Awaited, At
  <2>4. cs.server_state = "INITIAL" => Prepared(Reached)'
    BY <1>1, <1>4, <1>5, <2>1, <2>3 DEF Prepared
  <2> QED
    BY <1>1, <1>3, <1>4, <2>1, <2>4 DEF Configured, SetUp
<1>8. CASE Continued
  <2>1. /\ toClient' = toClient /\ engine'.phase = "running"
        /\ engine'.breakpoints = engine.breakpoints /\ engine'.features = engine.features
    BY <1>8 DEF Continued, SameScript
  <2>2. cs.server_state = "INITIAL" => Prepared(Reached)'
    BY <1>2, <1>4, <1>5, <2>1 DEF Prepared
  <2> QED
    BY <1>1, <1>4, <2>1, <2>2 DEF Configured, SetUp
<1>9. CASE Stopped \/ Finished
  <2>1. /\ engine'.phase # "starting" /\ engine.phase = "running"
        /\ engine'.breakpoints = engine.breakpoints /\ engine'.features = engine.features
    BY <1>9 DEF Stopped, Finished, SameScript
  <2>2. cs.server_state = "INITIAL" => p = 5
    BY <2>1, ContinuePlaces DEF Conversation, InList, At
  <2>3. cs.server_state = "INITIAL" => Prepared(Reached)'
    BY <1>1, <1>4, <1>5, <2>1, <2>2 DEF Prepared
  <2> QED
    BY <1>1, <1>4, <2>1, <2>3 DEF Configured, SetUp
<1> QED
  BY <1>6, <1>7, <1>8, <1>9 DEF ByEngine, Left, Died

(***************************************************************************)
(* By the time the buttons work, the engine has all three limits, and all  *)
(* four error breakpoints or, after the jump, none: nothing a patient user *)
(* does lets a session start with half of them.                            *)
(***************************************************************************)
THEOREM SessionsAreConfigured ==
  ASSUME Patient, Cooperative,
         "breakpoint_set" \notin Refused, "feature_set" \notin Refused
  PROVE  Spec => []SessionConfigured
<1>1. Init => Configured
  BY DEF Init, ClientInit, Configured
<1>2. IInv /\ Turns /\ Conversation /\ PhaseOK /\ Configured /\ [Next]_vars => Configured'
  <2> SUFFICES ASSUME IInv, Turns, Conversation, PhaseOK, Configured, [Next]_vars
               PROVE  Configured'
    OBVIOUS
  <2>1. Dispatching \/ OnWire \/ ByUser \/ ByEngine \/ Idle
    BY StepEffects
  <2>2. CASE Idle
    BY <2>2 DEF Idle, Configured, Prepared, Reached, SetUp
  <2>3. CASE conn = "open" /\ ~ Idle
    BY <2>1, <2>3, ConfiguredKeptByItems, ConfiguredKeptByClient, ConfiguredKeptByEngine
  <2>4. CASE conn # "open" /\ Opened
    BY <2>4 DEF Opened, NewClientState, Configured
  <2>5. CASE conn # "open" /\ ByEngine
    BY <2>5 DEF Configured, ByEngine, Replied, Accepted, Continued, Left, Stopped, Finished,
       Died, TakesOne, EngineActs
  <2> QED
    BY <2>1, <2>2, <2>3, <2>4, <2>5, Unconnected
<1>3. Configured => SessionConfigured
  BY DEF Configured, SessionConfigured, Settled, SetUp
<1> QED
  BY <1>1, <1>2, <1>3, Invariance, TakingTurns, ConversationAlways, PhaseAlways, PTL
     DEF Spec
=============================================================================
