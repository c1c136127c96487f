---------------------------- MODULE MCDbgpSession ---------------------------
(* Small sessions for TLC: two files, scripts at most two frames deep. *)
EXTENDS DbgpSession

CONSTANTS a, b, v, w

TwoFiles == {a, b}

(* One frame, and a function of another file called from it. *)
ShallowStacks == {<< a >>, << b, a >>}

OneRow == {v}
TwoRows == {v, w}

(* What the engine may turn down: next to nothing, or what lists rely on. *)
SomeRefusals == {"step_over", "property_get"}
DataRefusals == {"source", "stack_get"}

OnlyNonInteractive == {NON_INTERACTIVE}
EitherValue == {INTERACTIVE, NON_INTERACTIVE}
=============================================================================
