----------------------------- MODULE UsefulStuff ----------------------------
(***************************************************************************)
(* The helpers of src/src/usefulstuff.c as functions of sequences of bytes, *)
(* which are numbers.  The source of a page is cut into lines by           *)
(* xdebug_explode.                                                         *)
(***************************************************************************)
EXTENDS Integers, SequencesExt

NoMatch == 0

Matches(str, delim, p) ==
    p + Len(delim) - 1 <= Len(str) /\ SubSeq(str, p, p + Len(delim) - 1) = delim

(* The last place a needle of so many bytes may start at.                  *)
end_short(str, needle_len) == Len(str) - needle_len     \* faulty
end(str, needle_len) == Len(str) - needle_len + 1

(* The first place from p1 on that delim is at; delim is not empty.        *)
xdebug_memnstr(delim, str, p1) ==
    LET scan[p \in p1..(Len(str) + 1)] ==
            IF p > end(str, Len(delim)) THEN NoMatch
            ELSE IF Matches(str, delim, p) THEN p ELSE scan[p + 1]
    IN  scan[p1]

(* The pieces of str: another is cut off while there is a delimiter and     *)
(* limit, unless it is -1, has not come down to 1; the first is in any     *)
(* case.  What is left is the last.                                        *)
xdebug_explode(delim, str, limit) ==
    LET pieces[p1 \in 1..(Len(str) + 1)] ==
            [cut \in Nat |->
                LET p2 == xdebug_memnstr(delim, str, p1)
                IN  IF p2 # NoMatch /\ (cut = 0 \/ limit = -1 \/ limit - cut > 1)
                    THEN << SubSeq(str, p1, p2 - 1) >> \o pieces[p2 + Len(delim)][cut + 1]
                    ELSE << SubSeq(str, p1, Len(str)) >>]
    IN  pieces[1][0]

(* The pieces begin to end, which are counted from 0, with delim between.  *)
xdebug_join(delim, args, from, to) ==
    LET first == IF from < 0 THEN 0 ELSE from
        last  == IF to > Len(args) - 1 THEN Len(args) - 1 ELSE to
        before == [i \in 1..(last - first) |-> args[first + i] \o delim]
    IN  FlattenSeq(before) \o args[last + 1]
-----------------------------------------------------------------------------
Percent == 37
Slash == 47
hexchars == << 48, 49, 50, 51, 52, 53, 54, 55, 56, 57, 65, 66, 67, 68, 69, 70 >>

IsDigit(c) == c \in 48..57
IsXdigit(c) == IsDigit(c) \/ c \in 65..70 \/ c \in 97..102

Escapes(c, skip_slash) ==
    \/ c < 48 /\ c \notin {45, 46} /\ ~ (c = Slash /\ skip_slash)
    \/ c < 65 /\ c > 57
    \/ c > 90 /\ c < 97 /\ c # 95
    \/ c > 122

xdebug_raw_url_encode(str, skip_slash) ==
    FlattenSeq([i \in DOMAIN str |->
        IF Escapes(str[i], skip_slash)
        THEN << Percent, hexchars[(str[i] \div 16) + 1], hexchars[(str[i] % 16) + 1] >>
        ELSE << str[i] >>])

HexValue(c) == IF IsDigit(c) THEN c - 48 ELSE (IF c \in 65..90 THEN c + 32 ELSE c) - 97 + 10
xdebug_htoi(high, low) == HexValue(high) * 16 + HexValue(low)

(* An escape is left as it is if it is cut off or has other digits.        *)
EscapedCutOff(str, i) ==        \* faulty: the last byte of str is not looked at
    /\ str[i] = Percent /\ Len(str) - i > 2
    /\ IsXdigit(str[i + 1]) /\ IsXdigit(str[i + 2])
Escaped(str, i) ==
    /\ str[i] = Percent /\ Len(str) - i >= 2
    /\ IsXdigit(str[i + 1]) /\ IsXdigit(str[i + 2])

xdebug_raw_url_decode(str) ==
    LET decode[i \in 1..(Len(str) + 1)] ==
            IF i > Len(str) THEN << >>
            ELSE IF Escaped(str, i)
                 THEN << xdebug_htoi(str[i + 1], str[i + 2]) >> \o decode[i + 3]
                 ELSE << str[i] >> \o decode[i + 1]
    IN  decode[1]
=============================================================================
