---------------------------- MODULE RequestReply ----------------------------
(***************************************************************************)
(* What one DBGp link promises, seen from the client: commands and answers *)
(* alternate.  A command carries the next transaction id and is issued     *)
(* only when the one before has been answered; a link whose answer is lost *)
(* is dead, and nothing more is asked on it until a new one opens, where   *)
(* the ids start over.                                                     *)
(***************************************************************************)
EXTENDS Naturals

VARIABLES
    link,       \* down, up, or dead: open, but no answer will come any more
    asked,      \* id of the last command
    answered    \* id of the last answer the client has received

vars == <<link, asked, answered>>

FirstId == 1

Init ==
    /\ link = "down"
    /\ asked = FirstId /\ answered = FirstId

Open ==
    /\ link = "down"
    /\ link' = "up"
    /\ UNCHANGED <<asked, answered>>

Ask ==
    /\ link = "up" /\ answered = asked
    /\ asked' = asked + 1
    /\ UNCHANGED <<link, answered>>

Answer ==
    /\ link = "up" /\ answered # asked
    /\ answered' = asked
    /\ UNCHANGED <<link, asked>>

(* The last answer may be the last thing to come over the link. *)
Die ==
    /\ link = "up"
    /\ link' = "dead"
    /\ answered' \in {answered, asked}
    /\ UNCHANGED asked

Close ==
    /\ link # "down"
    /\ link' = "down"
    /\ asked' = FirstId /\ answered' = FirstId

Next == Open \/ Ask \/ Answer \/ Die \/ Close

Spec == Init /\ [][Next]_vars
=============================================================================
