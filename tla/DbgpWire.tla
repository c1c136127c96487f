------------------------------ MODULE DbgpWire ------------------------------
(***************************************************************************)
(* The DBGp conversation between the debugger client and the debug engine: *)
(* the commands the client sends, the XML documents the engine sends, and  *)
(* the two ordered, lossless byte streams of one TCP connection, at the    *)
(* granularity of whole commands and whole documents.                      *)
(*                                                                         *)
(* A command is what xdebug_sprintf writes into ClientState.command: its   *)
(* verb, its transaction id ("-i"), and the one argument that matters to   *)
(* the engine's answer.  A document keeps its kind (the tag of the root    *)
(* and, for a response, what it answers), its transaction id and the part  *)
(* of its contents a handler looks at.                                     *)
(***************************************************************************)
EXTENDS Integers, Sequences

CONSTANTS
    Files,      \* source files of the debugged script
    VarRows,    \* variables a context has; all of them have children
    NULL        \* the C null pointer, and "no argument"

ASSUME WireAssumption ==
    /\ NULL \notin Files \cup VarRows
    /\ VarRows # {}

ContinueVerbs == {"run", "step_into", "step_over", "step_out"}
EndVerbs == {"detach", "stop"}
ButtonVerbs == ContinueVerbs \cup EndVerbs

Commands ==
    [verb : ButtonVerbs \cup {"stack_get"}, tid : Nat, arg : {NULL}]
    \cup [verb : {"source"}, tid : Nat, arg : Files \cup {NULL}]
    \cup [verb : {"context_get"}, tid : Nat, arg : Int]
    \cup [verb : {"property_get"}, tid : Nat, arg : VarRows]
    \cup [verb : {"breakpoint_set", "feature_set"}, tid : Nat, arg : Nat]

Cmd(verb, tid, arg) == [verb |-> verb, tid |-> tid, arg |-> arg]

(***************************************************************************)
(* A stack document names the stop it was taken at (the engine's count of  *)
(* stops) besides the frames, innermost first; a context document the stop *)
(* and the stack level.  The stop is not in the XML: it is what lets a     *)
(* property say that a view is out of date.                                *)
(***************************************************************************)
Messages ==
    [kind : {"init"}, tid : {0}, data : Files]
    \cup [kind : {"break", "stopped", "ok", "error"}, tid : Nat, data : {NULL}]
    \cup [kind : {"source"}, tid : Nat, data : Files]
    \cup [kind : {"stack"}, tid : Nat, data : [stop : Nat, frames : Seq(Files)]]
    \cup [kind : {"context"}, tid : Nat, data : [stop : Nat, level : Int]]
    \cup [kind : {"property"}, tid : Nat, data : VarRows]

(* Commands and documents are memory of their own. *)
ASSUME NullAssumption == NULL \notin Commands \cup Messages

Msg(kind, tid, data) == [kind |-> kind, tid |-> tid, data |-> data]

VARIABLES
    toEngine,   \* commands written to the socket, not yet read by the engine
    toClient    \* documents sent by the engine, not yet read by the client

wires == <<toEngine, toClient>>
=============================================================================
