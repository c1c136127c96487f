--------------------------- MODULE MCPacketFraming --------------------------
(* Small buffers and documents for TLC. *)
EXTENDS PacketFraming

(* Header, XML and trailing NUL of the largest document take more than one *)
(* read, and its XML and NUL just fit the buffer.                          *)
FittingSizes == {1, 3, BufSize - 1}

(* Also documents as long as the buffer, and longer. *)
AnySizes == {1, BufSize - Digits - 1, BufSize, BufSize + 2}
=============================================================================
