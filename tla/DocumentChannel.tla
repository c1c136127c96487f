--------------------------- MODULE DocumentChannel --------------------------
(***************************************************************************)
(* What reading from the socket promises: of the documents the engine      *)
(* sends on a connection, each is handed over whole, once, and in order;   *)
(* those not yet handed over when the connection is lost are gone.         *)
(***************************************************************************)
EXTENDS Naturals, Sequences

VARIABLES
    sent,       \* the documents sent so far, on all connections
    earlier,    \* how many of them were sent on connections now closed
    handed      \* the documents handed over on this connection

vars == <<sent, earlier, handed>>

Init == sent = << >> /\ earlier = 0 /\ handed = << >>

Send ==
    /\ Len(sent') = Len(sent) + 1
    /\ SubSeq(sent', 1, Len(sent)) = sent
    /\ UNCHANGED <<earlier, handed>>

HandOver ==
    /\ earlier + Len(handed) < Len(sent)
    /\ handed' = Append(handed, sent[earlier + Len(handed) + 1])
    /\ UNCHANGED <<sent, earlier>>

Reconnect ==
    /\ earlier' = Len(sent)
    /\ handed' = << >>
    /\ UNCHANGED sent

Next == Send \/ HandOver \/ Reconnect

Spec == Init /\ [][Next]_vars
=============================================================================
