---------------------------- MODULE StringHelpers ---------------------------
(***************************************************************************)
(* The helpers, used on whatever text the buffer comes to hold.            *)
(***************************************************************************)
EXTENDS XdebugStr, UsefulStuff

CONSTANTS
    Delimiters,     \* what texts are split at
    Limits          \* how many pieces are asked for

ASSUME HelpersAssumption ==
    /\ Chars \subseteq 0..255
    /\ Delimiters \subseteq Seq(Chars) \ {<< >>}
    /\ Limits \subseteq Int

Has(str, delim) == \E p \in DOMAIN str : Matches(str, delim, p)

(* The pieces of a text are what lies between delimiters: none but the     *)
(* last has one, nor has the last unless the limit was reached; together   *)
(* they are the text again, so no line of a source is lost, also when it   *)
(* is empty or nothing follows the last newline (usefulstuff.c 118-151).   *)
SplitsAtDelimiters ==
    \A delim \in Delimiters, limit \in Limits :
        LET pieces == xdebug_explode(delim, Content, limit)
            most   == IF limit < 2 THEN 2 ELSE limit
        IN  /\ xdebug_join(delim, pieces, 0, Len(pieces)) = Content
            /\ \A i \in 1..(Len(pieces) - 1) : ~ Has(pieces[i], delim)
            /\ \/ ~ Has(Last(pieces), delim)
               \/ limit # -1 /\ Len(pieces) = most
            /\ limit # -1 => Len(pieces) <= most

(* Decoding undoes encoding, also for a text that looks encoded, and the   *)
(* three bytes for one that encode allocates are enough (213-259).         *)
UrlRoundTrip ==
    \A skip_slash \in BOOLEAN :
        LET encoded == xdebug_raw_url_encode(Content, skip_slash)
        IN  /\ xdebug_raw_url_decode(encoded) = Content
            /\ Len(encoded) <= 3 * l
            /\ Slash \in ToSet(encoded) => skip_slash
=============================================================================
