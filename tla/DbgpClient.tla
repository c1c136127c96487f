----------------------------- MODULE DbgpClient -----------------------------
(***************************************************************************)
(* The client half of a debugging session: ClientState and the callbacks   *)
(* of src/src/server.c.  gtkdbgp is single threaded: a callback (socket    *)
(* readable, socket writable, a button, a row selected) runs to its end    *)
(* before the next.  The one long callback is the reading of a document,   *)
(* which runs an action list; it is modelled one list item per step, with  *)
(* dispatching TRUE from the arrival of the document to the end of the     *)
(* loop, and no other callback starts in between.                          *)
(*                                                                         *)
(* There is one connection at a time.  Framing of documents in the byte    *)
(* stream, paging of properties and the layout of widgets are left out.    *)
(***************************************************************************)
EXTENDS DbgpWire, FiniteSets

INTERACTIVE == 0
NON_INTERACTIVE == 1

CONSTANT
    FallOff     \* what the four wrappers that lack a return may return

ASSUME FallOffAssumption ==
    FallOff \subseteq {INTERACTIVE, NON_INTERACTIVE} /\ FallOff # {}

VARIABLES
    conn,        \* what the global client_state denotes: none, open or freed
    fault,       \* none, or how the process died
    dispatching, \* a document is being processed by process_state_init
    cs,          \* *client_state
    ui           \* the widgets, and code_tabs_hash

clientVars == <<conn, fault, dispatching, cs, ui>>
-----------------------------------------------------------------------------
(* The action lists. *)

Item(func, param) == [func |-> func, param |-> param]

initial_action_list ==
    << Item("process_mark_buttons_inactive", 0),
       Item("do_source_get", 0),
       Item("process_add_source_file", 0),
       Item("do_step_into", 0),
       Item("do_stack_get", 0),
       Item("process_update_stack", 0),
       Item("process_select_file_line_for_stack_0", 4),
       Item("do_source_get", 0),
       Item("process_add_source_file", 0),
       Item("do_stack_get", 0),
       Item("process_select_file_line_for_stack_0_no_check", 0),
       Item("do_context_get", 0),
       Item("process_update_context_vars_for_selected_stack", 0),
       Item("process_jump", 256 + 4),
       Item("do_set_error_breakpoint", 1),
       Item("do_set_error_breakpoint", 2),
       Item("do_set_error_breakpoint", 3),
       Item("do_set_error_breakpoint", 4),
       Item("do_set_feature", 1),
       Item("do_set_feature", 3),
       Item("do_set_feature", 2),
       Item("process_mark_buttons_active", 0),
       Item("NULL", 0) >>

break_action_list ==
    << Item("process_mark_buttons_inactive", 0),
       Item("do_stack_get", 0),
       Item("process_update_stack", 0),
       Item("process_select_file_line_for_stack_0", 4),
       Item("do_source_get", 0),
       Item("process_add_source_file", 0),
       Item("do_stack_get", 0),
       Item("process_select_file_line_for_stack_0_no_check", 0),
       Item("do_context_get", 0),
       Item("process_update_context_vars_for_selected_stack", 0),
       Item("process_mark_buttons_active", 0),
       Item("NULL", 0) >>

stopped_action_list ==
    << Item("process_mark_buttons_inactive", 0),
       Item("do_run", 0),
       Item("NULL", 0) >>

select_stack_action_list ==
    << Item("process_mark_buttons_inactive", 0),
       Item("process_select_file_line_for_selected_stack", 4),
       Item("do_source_get", 0),
       Item("process_add_source_file", 0),
       Item("do_stack_get", 0),
       Item("process_select_file_line_for_selected_stack_no_check", 0),
       Item("do_context_get", 0),
       Item("process_update_context_vars_for_selected_stack", 0),
       Item("process_mark_buttons_active", 0),
       Item("NULL", 0) >>

fetch_property_action_list ==
    << Item("process_mark_buttons_inactive", 0),
       Item("process_fetched_property", 0),
       Item("process_mark_buttons_active", 0),
       Item("NULL", 0) >>

(* The list a server_state runs; no list has been assigned in "none". *)
ActionList(list) ==
    CASE list = "INITIAL"        -> initial_action_list
      [] list = "BREAK"          -> break_action_list
      [] list = "STOPPED"        -> stopped_action_list
      [] list = "SELECT_STACK"   -> select_stack_action_list
      [] list = "FETCH_PROPERTY" -> fetch_property_action_list
      [] OTHER                   -> << >>

ListNames == {"INITIAL", "BREAK", "STOPPED", "SELECT_STACK", "FETCH_PROPERTY"}
-----------------------------------------------------------------------------
(* The state. *)

NewClientState ==
    [ server_state |-> "INPUT",
      action_list  |-> "none",          \* the list action_list_ptr points into
      action_list_ptr |-> 0,            \* and the item, from 1
      command |-> NULL,
      out |-> FALSE,                    \* G_IO_OUT is in watch_flags
      last_tid |-> 1,
      message |-> NULL,
      last_source_file |-> NULL,
      last_selected_stack_frame |-> 0,
      nr_of_stack_frames |-> 0,
      stack_info_size |-> 0,
      path_string |-> NULL,
      last_iter |-> NULL,               \* the arrow's place; NULL: no last_store
      buttons_active |-> FALSE ]

(***************************************************************************)
(* The notebook's pages are ui.tabs, in order; a page remembers the file   *)
(* it was opened for (its tooltip and its key in code_tabs_hash) and the   *)
(* file whose text it shows.  ui.arrows are the places (file and stop) of  *)
(* RunPixbuf.  ui.rows are the root rows of the variable view, ui.hints    *)
(* those with the hint DBGPCLIENT_FETCH_MORE, ui.kids the variable whose   *)
(* children a row was given.                                               *)
(***************************************************************************)
NoStack == [stop |-> 0, frames |-> << >>]

NoKids == [r \in VarRows |-> NULL]

EmptyVarView == [from |-> NULL, rows |-> {}, hints |-> {}, kids |-> NoKids]

Places == [file : Files, stop : Nat]

ClientInit ==
    /\ conn = "none"
    /\ fault = "none"
    /\ dispatching = FALSE
    /\ cs = NewClientState
    /\ ui = [ tabs |-> << >>, current |-> NULL, arrows |-> {},
              stack |-> NoStack, vars |-> EmptyVarView ]

ClientStates ==
    [ server_state : {"INPUT"} \cup ListNames,
      action_list : {"none"} \cup ListNames,
      action_list_ptr : Nat,
      command : Commands \cup {NULL},
      out : BOOLEAN,
      last_tid : Nat,
      message : Messages \cup {NULL},
      last_source_file : Files \cup {NULL},
      last_selected_stack_frame : Int,
      nr_of_stack_frames : Nat,
      stack_info_size : Nat,
      path_string : VarRows \cup {NULL},
      last_iter : Places \cup {NULL},
      buttons_active : BOOLEAN ]

VarViews ==
    [ from : [stop : Nat, level : Int] \cup {NULL},
      rows : SUBSET VarRows,
      hints : SUBSET VarRows,
      kids : [VarRows -> VarRows \cup {NULL}] ]

Widgets ==
    [ tabs : Seq([file : Files, text : Files]),
      current : Files \cup {NULL},
      arrows : SUBSET Places,
      stack : [stop : Nat, frames : Seq(Files)],
      vars : VarViews ]

ClientTypeOK ==
    /\ conn \in {"none", "open", "freed"}
    /\ fault \in {"none", "null_deref", "use_after_free"}
    /\ dispatching \in BOOLEAN
    /\ cs \in ClientStates
    /\ ui \in Widgets

HasTab(file) == \E i \in DOMAIN ui.tabs : ui.tabs[i].file = file

(* The stack elements of a document: only a stack reply has any. *)
Frames(m) == IF m.kind = "stack" THEN m.data.frames ELSE << >>

(* message->child is null: a plain status or acknowledgement, a source.  A *)
(* break has a child only when an exception caused it.                     *)
HasNoChild(m) ==
    \/ m.kind \in {"break", "stopped", "ok", "source"}
    \/ m.kind = "stack" /\ m.data.frames = << >>

(* A stack level squeezed into the signed char of ClientState. *)
AsChar(n) == ((n + 128) % 256) - 128
-----------------------------------------------------------------------------
(* The loop of process_state_init, one item of the list per step. *)

CurrentItem == ActionList(cs.action_list)[cs.action_list_ptr]

Runs(func) == dispatching /\ CurrentItem.func = func

(***************************************************************************)
(* The function of the current item has left c in *client_state and        *)
(* returned v.  The pointer moves on either way; unless v is               *)
(* NON_INTERACTIVE the loop is over, and async_client_iofunc asks for      *)
(* G_IO_OUT when process_request found a command.                          *)
(***************************************************************************)
Returns(v, c) ==
    /\ dispatching' = (v = NON_INTERACTIVE)
    /\ cs' = [c EXCEPT !.action_list_ptr = @ + 1,
                       !.out = @ \/ (v # NON_INTERACTIVE /\ c.command # NULL)]

(* get_next_id, and the text of a command put into state->command. *)
WithCommandSameId(c, verb, arg) ==  \* faulty: the id is not taken
    [c EXCEPT !.command = Cmd(verb, c.last_tid + 1, arg)]

WithCommand(c, verb, arg) ==
    [c EXCEPT !.last_tid = @ + 1,
              !.command = Cmd(verb, c.last_tid + 1, arg)]

Issues(verb, arg) ==
    /\ Returns(INTERACTIVE, WithCommand(cs, verb, arg))
    /\ UNCHANGED <<conn, fault, ui, wires>>

Crash(how) ==
    /\ fault' = how
    /\ UNCHANGED <<conn, dispatching, cs, ui, wires>>

do_context_get ==
    /\ Runs("do_context_get")
    /\ Issues("context_get", cs.last_selected_stack_frame)

do_run ==
    /\ Runs("do_run")
    /\ Issues("run", NULL)

do_set_error_breakpoint ==
    /\ Runs("do_set_error_breakpoint")
    /\ Issues("breakpoint_set", CurrentItem.param)

do_set_feature ==
    /\ Runs("do_set_feature")
    /\ Issues("feature_set", CurrentItem.param)

InnermostSource ==      \* faulty: not what is selected
    IF Frames(cs.message) = << >> THEN cs.last_source_file ELSE Frames(cs.message)[1]
WantedSource == cs.last_source_file

do_source_get ==
    /\ Runs("do_source_get")
    /\ Issues("source", WantedSource)

do_stack_get ==
    /\ Runs("do_stack_get")
    /\ Issues("stack_get", NULL)

do_step_into ==
    /\ Runs("do_step_into")
    /\ Issues("step_into", NULL)

(***************************************************************************)
(* add_source_file: nothing for a file that has a page, else a new page,   *)
(* which becomes the current one.                                          *)
(***************************************************************************)
add_source_file_twice(file, text) ==    \* faulty: code_tabs_hash is not asked
    [ui EXCEPT !.tabs = Append(@, [file |-> file, text |-> text]),
               !.current = file]

add_source_file(file, text) ==
    IF HasTab(file)
    THEN ui
    ELSE [ui EXCEPT !.tabs = Append(@, [file |-> file, text |-> text]),
                    !.current = file]

process_add_source_file ==
    /\ Runs("process_add_source_file")
    /\ cs.message.kind = "source" /\ cs.last_source_file # NULL
    /\ ui' = add_source_file(cs.last_source_file, cs.message.data)
    /\ Returns(NON_INTERACTIVE, [cs EXCEPT !.last_source_file = NULL])
    /\ UNCHANGED <<conn, fault, wires>>

(***************************************************************************)
(* message->text is null in every document but a source, and               *)
(* add_source_file takes strlen of a null name.                            *)
(***************************************************************************)
process_add_source_file_crash ==
    /\ Runs("process_add_source_file")
    /\ cs.message.kind # "source" \/ cs.last_source_file = NULL
    /\ Crash("null_deref")

(* The children of a property reply go under the row path_string names; a  *)
(* context's first child, a variable without children, gives it a hint.    *)
add_fetched(vars, m, row) ==
    CASE m.kind = "property" -> [vars EXCEPT !.kids[row] = m.data]
      [] m.kind = "context"  -> [vars EXCEPT !.hints = @ \cup {row}]
      [] OTHER               -> vars

process_fetched_property ==
    /\ Runs("process_fetched_property")
    /\ ~ HasNoChild(cs.message) \/ cs.message.kind = "break"
    /\ ui' = [ui EXCEPT !.vars = add_fetched(@, cs.message, cs.path_string)]
    /\ Returns(NON_INTERACTIVE, [cs EXCEPT !.path_string = NULL])
    /\ UNCHANGED <<conn, fault, wires>>

(* add_property looks for an attribute of a null element. *)
process_fetched_property_crash ==
    /\ Runs("process_fetched_property")
    /\ HasNoChild(cs.message)
    /\ Crash("null_deref")

(* The distance in the parameter of a jump, JMP_MASK. *)
JumpUnmasked(param) == param            \* faulty: the flag is left in
JumpPastNext(param) == (param % 256) + 1  \* faulty: counted from the next item
Jump(param) == param % 256

(* The break_on_warning preference is read here, so either outcome. *)
process_jump ==
    /\ Runs("process_jump")
    /\ \E break_on_warning \in BOOLEAN :
          Returns(NON_INTERACTIVE,
                  [cs EXCEPT !.action_list_ptr =
                        @ + IF break_on_warning THEN 0
                                                ELSE Jump(CurrentItem.param)])
    /\ UNCHANGED <<conn, fault, ui, wires>>

process_mark_buttons_active ==
    /\ Runs("process_mark_buttons_active")
    /\ Returns(NON_INTERACTIVE, [cs EXCEPT !.buttons_active = TRUE])
    /\ UNCHANGED <<conn, fault, ui, wires>>

process_mark_buttons_inactive ==
    /\ Runs("process_mark_buttons_inactive")
    /\ Returns(NON_INTERACTIVE, [cs EXCEPT !.buttons_active = FALSE])
    /\ UNCHANGED <<conn, fault, ui, wires>>

(* Items to skip when the page is there. *)
SkipNothing(check) == 0                                     \* faulty
SkipTooFar(check) == IF check THEN CurrentItem.param + 1 ELSE 0  \* faulty
Skip(check) == IF check THEN CurrentItem.param ELSE 0

(* xdebug_hash_find in code_tabs_hash. *)
NeverFound(file) == FALSE   \* faulty: pages are not remembered
Found(file) == HasTab(file)

(***************************************************************************)
(* _process_select_file_line_for_...: the page of the frame's file is      *)
(* shown, and with check the next items (fetching the source) are skipped; *)
(* a file without a page is remembered for them.  frame is 0 when the      *)
(* document has no such frame.  The wrappers do not return the result, so  *)
(* what the loop sees is left to the compiler.                             *)
(***************************************************************************)
AfterSelect(c, frame, check) ==
    IF frame \notin DOMAIN Frames(cs.message)
    THEN c
    ELSE LET file == Frames(cs.message)[frame]
         IN  IF Found(file)
             THEN [c EXCEPT !.action_list_ptr = @ + Skip(check)]
             ELSE [c EXCEPT !.last_source_file = file]

(* The arrow leaves last_iter, where last_store still has it, for place. *)
CopiedArrow(arrows, from, to) == arrows \cup {to}      \* faulty
MovedArrow(arrows, from, to) == (arrows \ {from}) \cup {to}

process_select_file_line_for_stack_0 ==
    /\ \/ Runs("process_select_file_line_for_stack_0")
       \/ Runs("process_select_file_line_for_stack_0_no_check")
    /\ LET m      == cs.message
           shown  == 1 \in DOMAIN Frames(m) /\ HasTab(Frames(m)[1])
           place  == [file |-> Frames(m)[1], stop |-> m.data.stop]
           check  == CurrentItem.func = "process_select_file_line_for_stack_0"
           moved  == IF shown THEN [cs EXCEPT !.last_iter = place] ELSE cs
       IN  /\ ui' = IF shown
                    THEN [ui EXCEPT !.current = place.file,
                                    !.arrows = MovedArrow(@, cs.last_iter, place)]
                    ELSE ui
           /\ \E v \in FallOff : Returns(v, AfterSelect(moved, 1, check))
    /\ UNCHANGED <<conn, fault, wires>>

process_select_file_line_for_selected_stack ==
    /\ \/ Runs("process_select_file_line_for_selected_stack")
       \/ Runs("process_select_file_line_for_selected_stack_no_check")
    /\ LET m     == cs.message
           frame == cs.last_selected_stack_frame + 1
           shown == frame \in DOMAIN Frames(m) /\ HasTab(Frames(m)[frame])
           check == CurrentItem.func =
                       "process_select_file_line_for_selected_stack"
       IN  /\ ui' = IF shown THEN [ui EXCEPT !.current = Frames(m)[frame]] ELSE ui
           /\ \E v \in FallOff : Returns(v, AfterSelect(cs, frame, check))
    /\ UNCHANGED <<conn, fault, wires>>

(***************************************************************************)
(* The variable view is emptied and filled with the document's property    *)
(* children: the variables of a context, or, when the answer to another    *)
(* request is handed here, the one variable of a property reply.           *)
(***************************************************************************)
VarView(m) ==
    CASE m.kind = "context" ->
            [from |-> m.data, rows |-> VarRows, hints |-> VarRows, kids |-> NoKids]
      [] m.kind = "property" ->
            [EmptyVarView EXCEPT !.rows = {m.data}, !.kids[m.data] = m.data]
      [] OTHER -> EmptyVarView

process_update_context_vars_for_selected_stack ==
    /\ Runs("process_update_context_vars_for_selected_stack")
    /\ ui' = [ui EXCEPT !.vars = VarView(cs.message)]
    /\ Returns(NON_INTERACTIVE, cs)
    /\ UNCHANGED <<conn, fault, wires>>

ShowsFramesOnly(c, frames) ==   \* faulty: the selected frame stays
    [c EXCEPT !.nr_of_stack_frames = Len(frames)]

ShowsFrames(c, frames) ==
    [c EXCEPT !.nr_of_stack_frames = Len(frames), !.last_selected_stack_frame = 0]

process_update_stack ==
    /\ Runs("process_update_stack")
    /\ ui' = [ui EXCEPT !.stack = IF Frames(cs.message) = << >>
                                  THEN NoStack ELSE cs.message.data]
    /\ Returns(NON_INTERACTIVE, ShowsFrames(cs, Frames(cs.message)))
    /\ UNCHANGED <<conn, fault, wires>>

EndsNever(c) == c       \* faulty: still waiting for an answer
Ends(c) == [c EXCEPT !.server_state = "INPUT"]

(* The list is over: process_state_init leaves the pointer on its NULL. *)
EndOfList ==
    /\ Runs("NULL")
    /\ dispatching' = FALSE
    /\ cs' = [Ends(cs) EXCEPT !.out = @ \/ cs.command # NULL]
    /\ UNCHANGED <<conn, fault, ui, wires>>
-----------------------------------------------------------------------------
(* The socket callback, async_client_iofunc. *)

(* process_request has parsed the next document into client_state->message. *)
Reads(c) ==
    /\ conn = "open" /\ ~ dispatching
    /\ toClient # << >>
    /\ cs' = [c EXCEPT !.message = Head(toClient)]
    /\ toClient' = Tail(toClient)
    /\ UNCHANGED <<conn, fault, ui, toEngine>>

WithList(c, list) ==
    [c EXCEPT !.server_state = list, !.action_list = list, !.action_list_ptr = 1]

(* process_state_input: between lists a document chooses one, or is ignored. *)
process_state_input_init ==
    /\ cs.server_state = "INPUT" /\ toClient # << >> /\ Head(toClient).kind = "init"
    /\ Reads(WithList([cs EXCEPT !.last_source_file = Head(toClient).data], "INITIAL"))
    /\ dispatching' = TRUE

process_state_input_break ==
    /\ cs.server_state = "INPUT" /\ toClient # << >> /\ Head(toClient).kind = "break"
    /\ Reads(WithList(cs, "BREAK"))
    /\ dispatching' = TRUE

process_state_input_stopped ==
    /\ cs.server_state = "INPUT" /\ toClient # << >> /\ Head(toClient).kind = "stopped"
    /\ Reads(WithList(cs, "STOPPED"))
    /\ dispatching' = TRUE

process_state_input_other ==
    /\ cs.server_state = "INPUT" /\ toClient # << >>
    /\ Head(toClient).kind \notin {"init", "break", "stopped"}
    /\ Reads(cs)
    /\ UNCHANGED dispatching

(* In the middle of a list any document is the answer the list waits for. *)
process_request ==
    /\ cs.server_state # "INPUT"
    /\ Reads(cs)
    /\ dispatching' = TRUE

WrittenStillWatched(c) == [c EXCEPT !.command = NULL]   \* faulty
WrittenAgain(c) == c                                   \* faulty
Written(c) == [c EXCEPT !.command = NULL, !.out = FALSE]

WritesOut(command) == Append(toEngine, command)

(* G_IO_OUT: the command is written, freed, and the flag removed. *)
IoWrite ==
    /\ conn = "open" /\ ~ dispatching
    /\ cs.out
    /\ toEngine' = WritesOut(cs.command)
    /\ cs' = Written(cs)
    /\ UNCHANGED <<conn, fault, dispatching, ui, toClient>>

ViewsKept == ui         \* faulty
ViewsEmptied == [ui EXCEPT !.stack = NoStack, !.vars = EmptyVarView]

(***************************************************************************)
(* The error label, and clientstate_delete: the memory is freed, while the *)
(* global keeps its address; the stack and variable views are emptied, the *)
(* notebook stays.  Errors and hang-ups are looked at before data, so      *)
(* unread documents are lost.                                              *)
(***************************************************************************)
IoError ==
    /\ conn = "open" /\ ~ dispatching
    /\ conn' = "freed"
    /\ cs' = NewClientState
    /\ ui' = ViewsEmptied
    /\ toEngine' = << >> /\ toClient' = << >>
    /\ UNCHANGED <<fault, dispatching>>

(* async_accept; the previous connection, if any, is gone. *)
async_accept ==
    /\ conn # "open"
    /\ conn' = "open"
    /\ cs' = NewClientState
    /\ UNCHANGED <<fault, dispatching, ui>>
-----------------------------------------------------------------------------
(* The callbacks of the user interface. *)

(* stack_info grows to hold the frames, by four more than needed. *)
SavedPaths(c) ==
    IF c.nr_of_stack_frames > c.stack_info_size
    THEN [c EXCEPT !.stack_info_size = c.nr_of_stack_frames + 4]
    ELSE c

Requests(c, verb, arg) == [WithCommand(c, verb, arg) EXCEPT !.out = TRUE]

(***************************************************************************)
(* process_a_button.  It reads the connection's state before it asks       *)
(* whether there is one, and stack_info[nr_of_stack_frames - 1] before     *)
(* stack_info is allocated.  With no frames and an allocated stack_info    *)
(* the element read lies just before the block; its value is not used.     *)
(* The buttons stay active until the answer is processed.                  *)
(***************************************************************************)
process_a_button(command) ==
    /\ conn = "open" /\ ~ dispatching
    /\ cs.nr_of_stack_frames > 0 \/ cs.stack_info_size > 0
    /\ cs' = IF cs.buttons_active
             THEN Requests(SavedPaths(cs), command, NULL)
             ELSE SavedPaths(cs)
    /\ UNCHANGED <<conn, fault, dispatching, ui, wires>>

process_a_button_no_frames ==
    /\ conn = "open" /\ ~ dispatching
    /\ cs.nr_of_stack_frames = 0 /\ cs.stack_info_size = 0
    /\ Crash("null_deref")

process_a_button_no_connection ==
    /\ conn # "open"
    /\ Crash(IF conn = "none" THEN "null_deref" ELSE "use_after_free")

(* A click on a row of the stack view: buttons_active is not consulted. *)
stack_selection_function(row) ==
    /\ ~ dispatching
    /\ row \in DOMAIN ui.stack.frames
    /\ row - 1 # cs.last_selected_stack_frame
    /\ cs' = Requests(WithList([cs EXCEPT !.last_selected_stack_frame = AsChar(row - 1)],
                               "SELECT_STACK"),
                      "stack_get", NULL)
    /\ UNCHANGED <<conn, fault, dispatching, ui, wires>>

RowForgotten(c, row) == c       \* faulty
FirstRow(c, row) ==             \* faulty: the path of another row
    [c EXCEPT !.path_string = CHOOSE r \in ui.vars.rows : TRUE]
RowRemembered(c, row) == [c EXCEPT !.path_string = row]

(* A click on a variable whose children have not been fetched. *)
varview_selection_function(row) ==
    /\ ~ dispatching
    /\ row \in ui.vars.hints
    /\ ui' = [ui EXCEPT !.vars.hints = @ \ {row}]
    /\ cs' = Requests(WithList(RowRemembered(cs, row), "FETCH_PROPERTY"),
                      "property_get", row)
    /\ UNCHANGED <<conn, fault, dispatching, wires>>
-----------------------------------------------------------------------------
DispatchStep ==
    \/ do_context_get
    \/ do_run
    \/ do_set_error_breakpoint
    \/ do_set_feature
    \/ do_source_get
    \/ do_stack_get
    \/ do_step_into
    \/ process_add_source_file
    \/ process_add_source_file_crash
    \/ process_fetched_property
    \/ process_fetched_property_crash
    \/ process_jump
    \/ process_mark_buttons_active
    \/ process_mark_buttons_inactive
    \/ process_select_file_line_for_stack_0
    \/ process_select_file_line_for_selected_stack
    \/ process_update_context_vars_for_selected_stack
    \/ process_update_stack
    \/ EndOfList

ReadStep ==
    \/ process_state_input_init
    \/ process_state_input_break
    \/ process_state_input_stopped
    \/ process_state_input_other
    \/ process_request
=============================================================================
