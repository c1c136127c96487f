------------------------------ MODULE MCSockets -----------------------------
(* Two connections, and commands of one byte and a NUL. *)
EXTENDS Sockets

CONSTANTS one, two
=============================================================================
