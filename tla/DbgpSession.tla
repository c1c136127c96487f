----------------------------- MODULE DbgpSession ----------------------------
(***************************************************************************)
(* Debugging sessions: the client, the engine and the user together.       *)
(*                                                                         *)
(* The user presses buttons and selects rows at any moment the client is   *)
(* not inside a callback, or, when Patient, only once the client shows the *)
(* result of everything asked before.  Sessions follow one another;        *)
(* notebook pages outlive them.                                            *)
(***************************************************************************)
EXTENDS DbgpClient, DebugEngine

CONSTANTS
    Patient,      \* the user waits for results
    MaxClicks,    \* bound on what the user does
    MaxAccepts    \* bound on the number of connections

ASSUME UserAssumption ==
    /\ Patient \in BOOLEAN
    /\ MaxClicks \in Nat /\ MaxAccepts \in Nat

VARIABLES clicks, accepts

userVars == <<clicks, accepts>>
vars == <<clientVars, wires, engine, userVars>>

Init ==
    /\ ClientInit
    /\ EngineInit
    /\ toEngine = << >> /\ toClient = << >>
    /\ clicks = 0 /\ accepts = 0

(* Everything asked for has been answered, and the client takes commands. *)
Settled ==
    /\ conn = "open" /\ ~ dispatching
    /\ cs.server_state = "INPUT" /\ cs.buttons_active
    /\ cs.command = NULL /\ toEngine = << >> /\ toClient = << >>
    /\ engine.phase = "break"
-----------------------------------------------------------------------------
Connect ==
    /\ accepts < MaxAccepts
    /\ accepts' = accepts + 1
    /\ async_accept
    /\ \E file \in Files : Connects(file)
    /\ UNCHANGED clicks

Clicks ==
    /\ clicks < MaxClicks
    /\ Patient => Settled
    /\ clicks' = clicks + 1
    /\ UNCHANGED <<accepts, engine>>

UserPresses == Clicks /\ \E verb \in ButtonVerbs : process_a_button(verb)

UserPressesTooEarly == Clicks /\ process_a_button_no_frames

UserPressesUnconnected == Clicks /\ process_a_button_no_connection

UserSelectsFrame ==
    Clicks /\ \E row \in DOMAIN ui.stack.frames : stack_selection_function(row)

UserSelectsVariable ==
    Clicks /\ \E row \in VarRows : varview_selection_function(row)

SocketReadable == ReadStep /\ UNCHANGED <<engine, userVars>>

SocketWritable == IoWrite /\ UNCHANGED <<engine, userVars>>

SocketError == engine.phase = "gone" /\ IoError /\ UNCHANGED <<engine, userVars>>

Dispatches == DispatchStep /\ UNCHANGED <<engine, userVars>>

EngineStep ==
    /\ EngineAnswers \/ ScriptStops \/ ScriptEnds
    /\ UNCHANGED <<clientVars, userVars>>

EngineFails == EngineDies /\ UNCHANGED <<clientVars, userVars>>

(* A process that has died takes no step. *)
Next ==
    /\ fault = "none"
    /\ \/ Connect
       \/ UserPresses
       \/ UserPressesTooEarly
       \/ UserPressesUnconnected
       \/ UserSelectsFrame
       \/ UserSelectsVariable
       \/ SocketReadable
       \/ SocketWritable
       \/ SocketError
       \/ Dispatches
       \/ EngineStep
       \/ EngineFails

Spec == Init /\ [][Next]_vars
-----------------------------------------------------------------------------
(* Whatever the user does. *)

(* Types of all variables. *)
TypeOK ==
    /\ ClientTypeOK
    /\ EngineTypeOK
    /\ toEngine \in Seq(Commands)
    /\ toClient \in Seq(Messages)
    /\ clicks \in Nat /\ accepts \in Nat

(* A running or waiting list never steps past its NULL item: not by the    *)
(* jumps and skips, and not by a document that comes when it is over.      *)
PointerInList ==
    cs.server_state # "INPUT" =>
        cs.action_list_ptr \in DOMAIN ActionList(cs.action_list)

(* G_IO_OUT is watched exactly when there is a command: the writer never   *)
(* takes strlen of null, and no command is left unsent.                    *)
OutIffCommand == cs.out <=> cs.command # NULL

(* The selection handlers use client_state unchecked; when the connection  *)
(* drops, the views are emptied so that no row is left to call them.       *)
RowsOnlyWhenConnected ==
    ui.stack.frames # << >> \/ ui.vars.rows # {} => conn = "open"

(* No file has two notebook pages, across sessions too: the action lists   *)
(* and add_source_file together see to it.                                 *)
OnePagePerFile ==
    \A i, j \in DOMAIN ui.tabs : ui.tabs[i].file = ui.tabs[j].file => i = j

(* Transaction ids grow along the way from the answers in flight, over the *)
(* commands not yet read, to the command not yet written.                  *)
Tids == LET pick(s) == [i \in DOMAIN s |-> s[i].tid]
        IN  pick(toClient)
            \o (IF engine.phase = "running" THEN << engine.run_tid >> ELSE << >>)
            \o pick(toEngine)
            \o (IF cs.command # NULL THEN << cs.command.tid >> ELSE << >>)

TidsIncrease ==
    /\ \A i, j \in DOMAIN Tids : i < j => Tids[i] < Tids[j]
    /\ \A i \in DOMAIN Tids : Tids[i] <= cs.last_tid

(* The row a fetched property will be hung under is still in the variable  *)
(* view when the next document arrives, whatever was clicked meanwhile.    *)
FetchRowIsShown ==
    cs.server_state = "FETCH_PROPERTY" /\ cs.action_list_ptr <= 2 =>
        cs.path_string \in ui.vars.rows

(* The list stands behind a wrapper that returned no value: the loop took   *)
(* what was in the register for INTERACTIVE, and no command was issued.    *)
Wrappers == { "process_select_file_line_for_stack_0",
              "process_select_file_line_for_stack_0_no_check",
              "process_select_file_line_for_selected_stack",
              "process_select_file_line_for_selected_stack_no_check" }

FellOff ==
    /\ ~ dispatching /\ cs.server_state # "INPUT"
    /\ cs.action_list_ptr > 1
    /\ ActionList(cs.action_list)[cs.action_list_ptr - 1].func \in Wrappers

(* A client in the middle of a list is owed the answer to the last command *)
(* it issued, so it does not wait for a document nobody will send; only a  *)
(* missing return can leave it so.                                         *)
Outstanding ==
    (IF cs.command # NULL THEN {cs.command.tid} ELSE {})
    \cup {toEngine[i].tid : i \in DOMAIN toEngine}
    \cup (IF engine.phase = "running" THEN {engine.run_tid} ELSE {})
    \cup {toClient[i].tid : i \in DOMAIN toClient}

WaitsForAnAnswer ==
    /\ conn = "open" /\ engine.phase # "gone"
    /\ ~ dispatching /\ cs.server_state # "INPUT"
    => cs.last_tid \in Outstanding \/ FellOff

(* Once a file has a page its source is not asked for again, except for    *)
(* the file a new session announces.                                       *)
FetchesOnlyNewFiles ==
    [][/\ cs'.command # NULL /\ cs'.command # cs.command
       /\ cs'.command.verb = "source"
       => \/ ~ HasTab(cs'.command.arg)
          \/ cs.server_state = "INITIAL" /\ cs.action_list_ptr = 2]_vars

(* A button pressed without a connection is not handled.                   *)
ButtonsNeedConnection ==
    [][conn # "open" => fault' = "none"]_vars
-----------------------------------------------------------------------------
(* With a user who waits for the results of the last click. *)

(* Request and reply alternate: at most one command or answer is under way *)
(* and none while a document is processed.                                 *)
LockStep ==
    conn = "open" =>
        Len(Tids) <= IF dispatching /\ cs.command = NULL THEN 0 ELSE 1

(* Nothing but the order ties an answer to the list item that uses it: the *)
(* document an item is handed is the one its list asked for last.          *)
Uses ==
    [ process_add_source_file |-> "source",
      process_update_stack |-> "stack",
      process_select_file_line_for_stack_0 |-> "stack",
      process_select_file_line_for_stack_0_no_check |-> "stack",
      process_select_file_line_for_selected_stack |-> "stack",
      process_select_file_line_for_selected_stack_no_check |-> "stack",
      process_update_context_vars_for_selected_stack |-> "context",
      process_fetched_property |-> "property" ]

RequestFor == [ source |-> "source", stack |-> "stack_get",
                context |-> "context_get", property |-> "property_get" ]

HandlerGetsItsReply ==
    dispatching /\ CurrentItem.func \in DOMAIN Uses =>
        LET kind == Uses[CurrentItem.func]
        IN  /\ cs.message.tid = cs.last_tid
            /\ \/ cs.message.kind = kind
               \/ cs.message.kind = "error" /\ RequestFor[kind] \in Refused

(* When the client waits for the user, what it shows is where the script   *)
(* is: the stack of this stop, the variables and the file of the selected  *)
(* frame.                                                                  *)
ViewsAgree ==
    Settled =>
        /\ ui.stack = [stop |-> engine.stop, frames |-> engine.frames]
        /\ ui.vars.from = [stop  |-> engine.stop,
                           level |-> cs.last_selected_stack_frame]
        /\ ui.current = engine.frames[cs.last_selected_stack_frame + 1]

(* The arrow marks the innermost frame of this stop; moving on removes the *)
(* old arrow, of which a session leaves at most one.                       *)
OneArrowPerSession ==
    /\ Cardinality(ui.arrows) <= accepts
    /\ Settled => [file |-> engine.frames[1], stop |-> engine.stop] \in ui.arrows

(* By the time the buttons work, the engine has all three limits, and all  *)
(* of the error breakpoints or none.                                       *)
SessionConfigured ==
    Settled => /\ engine.features = 1 .. 3
               /\ engine.breakpoints \in {{}, 1 .. 4}

(* A page shows the text of the file it is labelled with. *)
PageShowsItsFile == \A i \in DOMAIN ui.tabs : ui.tabs[i].text = ui.tabs[i].file

(* Children are hung under the variable they belong to. *)
KidsUnderTheirParent ==
    \A r \in VarRows : ui.vars.kids[r] \in {NULL, r}

(* No document makes the client read a part it does not have.              *)
NoCrash == fault = "none"
-----------------------------------------------------------------------------
(***************************************************************************)
(* Fairness.  The main loop runs a callback whose condition holds, and a   *)
(* callback runs to its end; the engine answers, and scripts stop or end.  *)
(* Nothing is assumed of the user, of new connections, or of failures.     *)
(***************************************************************************)
Fairness ==
    /\ WF_vars(fault = "none" /\ SocketReadable)
    /\ WF_vars(fault = "none" /\ SocketWritable)
    /\ WF_vars(fault = "none" /\ SocketError)
    /\ WF_vars(fault = "none" /\ Dispatches)
    /\ WF_vars(fault = "none" /\ EngineStep)

FairSpec == Spec /\ Fairness

(* Whatever was asked, the client comes back to the user with the result,  *)
(* or finds the connection closed; again but for a missing return.         *)
ComesToRest == conn = "open" ~> Settled \/ conn # "open" \/ FellOff
-----------------------------------------------------------------------------
(***************************************************************************)
(* The session, with a patient user, implements RequestReply.  A link is   *)
(* dead when the engine has gone and the client has neither a document     *)
(* left to read nor a command left to write.                               *)
(***************************************************************************)
Dead ==
    /\ engine.phase = "gone" /\ toClient = << >>
    /\ ~ dispatching /\ cs.command = NULL

Link == IF conn # "open" THEN "down" ELSE IF Dead THEN "dead" ELSE "up"

(* The document that opens the session answers nothing. *)
Answered ==
    IF cs.message = NULL \/ cs.message.kind = "init" THEN 1 ELSE cs.message.tid

RR == INSTANCE RequestReply
        WITH link <- Link, asked <- cs.last_tid, answered <- Answered

(* Requests and answers alternate, with consecutive ids, until the link is *)
(* lost: what lets the client match answers by their order alone.          *)
AlternatesRequests == RR!Spec
=============================================================================
