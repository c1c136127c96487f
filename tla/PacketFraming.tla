---------------------------- MODULE PacketFraming ---------------------------
(***************************************************************************)
(* The read half of async_client_iofunc: how documents are found in the    *)
(* bytes of a connection.  The engine frames a document as                 *)
(*                                                                         *)
(*         its length in decimal, NUL, the XML, NUL                        *)
(*                                                                         *)
(* and TCP delivers the bytes in order, in portions that need not have     *)
(* anything to do with the frames.  A byte is modelled by where it stands: *)
(* the number of its document and its place in the frame, 0 for the NUL    *)
(* after the length and 1 for the first byte of the XML.                   *)
(***************************************************************************)
EXTENDS Integers, Sequences

CONSTANTS
    Sizes,          \* lengths of the XML of documents
    Digits,         \* digits of a length
    BufSize,        \* size of the read buffer, and of client_state->buffer
    CutsFrames,     \* do portions end within headers and before trailing NULs?
    Pipelined,      \* is a document sent before the previous one is used?
    MaxDocs, MaxConnections

ASSUME FramingAssumption ==
    /\ Sizes # {} /\ Sizes \subseteq Nat \ {0}
    /\ Digits \in Nat \ {0}
    /\ BufSize \in Nat \ {0}
    /\ CutsFrames \in BOOLEAN
    /\ Pipelined \in BOOLEAN
    /\ MaxDocs \in Nat
    /\ MaxConnections \in Nat

VARIABLES
    sent,           \* the length of each document sent
    earlier,        \* how many were sent on connections now closed
    wire, sock,     \* bytes on their way, and bytes that can be read
    open,           \* is there a connection?
    connections,    \* how many there have been
    first_packet,   \* the next read begins a document
    more_coming,    \* a document is incomplete
    expected_length,
    buffer,         \* client_state->buffer, up to current_pos
    handed,         \* what process_request was called with on this connection
    fault           \* memory written where it must not be

client == <<first_packet, more_coming, expected_length, buffer>>
stream == <<sent, earlier, wire>>
link == <<open, connections>>
vars == <<client, stream, sock, link, handed, fault>>

Byte == [doc : Nat, at : Int]

Frame(document, size) ==
    [k \in 1..(Digits + size + 2) |-> [doc |-> document, at |-> k - Digits - 1]]

Xml(document, size) == [k \in 1..size |-> [doc |-> document, at |-> k]]

IsNul(byte) == byte.at \in {0, sent[byte.doc] + 1}

IsFirstDigit(byte) == byte.at = -Digits

-----------------------------------------------------------------------------
(* The engine and the network. *)

Caught == earlier + Len(handed) >= Len(sent)

Send(size) ==
    /\ open
    /\ Len(sent) < MaxDocs
    /\ Pipelined \/ Caught
    /\ sent' = Append(sent, size)
    /\ wire' = wire \o Frame(Len(sent) + 1, size)
    /\ UNCHANGED <<client, earlier, sock, link, handed, fault>>

(* Where a portion may end if frames are kept together: behind a frame, or *)
(* within its XML.                                                         *)
MayEnd(byte) ==
    \/ CutsFrames
    \/ byte.at \in 1..(sent[byte.doc] - 1)
    \/ byte.at = sent[byte.doc] + 1

Arrive(n) ==
    /\ open
    /\ MayEnd(wire[n])
    /\ sock' = sock \o SubSeq(wire, 1, n)
    /\ wire' = SubSeq(wire, n + 1, Len(wire))
    /\ UNCHANGED <<client, sent, earlier, link, handed, fault>>

-----------------------------------------------------------------------------
(* The client. *)

ChunkLength == IF Len(sock) <= BufSize THEN Len(sock) ELSE BufSize
Chunk == SubSeq(sock, 1, ChunkLength)
Unread == SubSeq(sock, ChunkLength + 1, Len(sock))

HasNul(bytes) == \E k \in DOMAIN bytes : IsNul(bytes[k])

(* null_starts is strlen of the bytes. *)
IsStrlen(bytes, null_starts) ==
    /\ IsNul(bytes[null_starts + 1])
    /\ \A k \in 1..null_starts : ~IsNul(bytes[k])

(* What is copied to client_state->buffer. *)
Payload(bytes, null_starts) == SubSeq(bytes, null_starts + 2, Len(bytes))

(* strtol of the bytes before the NUL: the length, if they are one, nothing *)
(* if there are none, and who knows what if they are in the middle of       *)
(* another document.                                                        *)
Lengths(bytes) ==
    IF IsFirstDigit(bytes[1]) THEN {sent[bytes[1].doc]}
    ELSE IF IsNul(bytes[1]) THEN {0}
    ELSE {0} \cup Sizes

(* What follows once content is in the buffer and length is expected.  What *)
(* process_request makes of the bytes is DbgpClient's matter: they need not *)
(* be a document, and there may be none (length 0).                         *)
TakenAll(content, length) ==                \* faulty: hands over all there is
    /\ buffer' = content
    /\ expected_length' = length
    /\ more_coming' = FALSE
    /\ first_packet' = TRUE
    /\ handed' = Append(handed, content)

TakenNotReset(content, length) ==           \* faulty: first_packet stays FALSE
    /\ buffer' = content
    /\ expected_length' = length
    /\ more_coming' = FALSE
    /\ first_packet' = FALSE
    /\ handed' = Append(handed, SubSeq(content, 1, length))

Taken(content, length) ==
    /\ buffer' = content
    /\ expected_length' = length
    /\ more_coming' = FALSE
    /\ first_packet' = TRUE
    /\ handed' = Append(handed, SubSeq(content, 1, length))

Kept(content, length) ==
    /\ buffer' = content
    /\ expected_length' = length
    /\ more_coming' = TRUE
    /\ first_packet' = FALSE
    /\ UNCHANGED handed

ReceivedFrame(content, length) ==           \* faulty: counts the header too
    IF Len(content) < length + Digits + 1 THEN Kept(content, length)
    ELSE Taken(content, length)

Received(content, length) ==
    IF Len(content) < length THEN Kept(content, length)
    ELSE Taken(content, length)

Reads ==
    /\ open
    /\ sock # << >>
    /\ sock' = Unread
    /\ UNCHANGED <<stream, link>>

ReadFirst ==
    /\ Reads
    /\ first_packet
    /\ \E null_starts \in 0..(Len(Chunk) - 1), length \in Lengths(Chunk) :
          /\ IsStrlen(Chunk, null_starts)
          /\ Received(Payload(Chunk, null_starts), length)
    /\ UNCHANGED fault

(* strlen runs to the end of what was read: the number of bytes to copy is *)
(* minus one, as an unsigned number.                                       *)
ReadFirst_underflow ==
    /\ Reads
    /\ first_packet
    /\ ~HasNul(Chunk)
    /\ fault' = "underflow"
    /\ UNCHANGED <<client, handed>>

ReadMore ==
    /\ Reads
    /\ ~first_packet
    /\ Len(buffer) + Len(Chunk) <= BufSize
    /\ Received(buffer \o Chunk, expected_length)
    /\ UNCHANGED fault

ReadMore_overrun ==
    /\ Reads
    /\ ~first_packet
    /\ Len(buffer) + Len(Chunk) > BufSize
    /\ fault' = "overrun"
    /\ UNCHANGED <<client, handed>>

Read == ReadFirst \/ ReadFirst_underflow \/ ReadMore \/ ReadMore_overrun

(* An error, a hang-up, or the end of the stream: clientstate_delete. *)
Close ==
    /\ open
    /\ open' = FALSE
    /\ wire' = << >>
    /\ sock' = << >>
    /\ UNCHANGED <<client, sent, earlier, connections, handed, fault>>

async_accept_reused ==                      \* faulty: the old ClientState is kept
    /\ ~open
    /\ connections < MaxConnections
    /\ open' = TRUE
    /\ connections' = connections + 1
    /\ handed' = << >>
    /\ earlier' = Len(sent)
    /\ UNCHANGED <<client, sent, wire, sock, fault>>

async_accept ==
    /\ ~open
    /\ connections < MaxConnections
    /\ open' = TRUE
    /\ connections' = connections + 1
    /\ first_packet' = TRUE
    /\ more_coming' = FALSE
    /\ expected_length' = 0
    /\ buffer' = << >>
    /\ handed' = << >>
    /\ earlier' = Len(sent)
    /\ UNCHANGED <<sent, wire, sock, fault>>

-----------------------------------------------------------------------------
Init ==
    /\ sent = << >> /\ earlier = 0
    /\ wire = << >> /\ sock = << >>
    /\ open = FALSE /\ connections = 0
    /\ first_packet = TRUE /\ more_coming = FALSE
    /\ expected_length = 0 /\ buffer = << >>
    /\ handed = << >>
    /\ fault = "none"

Delivers == \E n \in DOMAIN wire : Arrive(n)

Next ==
    /\ fault = "none"
    /\ \/ \E size \in Sizes : Send(size)
       \/ Delivers
       \/ Read
       \/ Close
       \/ async_accept

Spec == Init /\ [][Next]_vars

(* Bytes on their way arrive, and the main loop calls back when there are *)
(* bytes to read.                                                         *)
FairSpec ==
    /\ Spec
    /\ WF_vars(fault = "none" /\ Delivers)
    /\ WF_vars(fault = "none" /\ Read)

-----------------------------------------------------------------------------
(* The types of the variables; current_pos stays in the buffer, and a       *)
(* document is incomplete exactly when the next read continues it           *)
(* (first_packet and more_coming, set apart at lines 1250-1281).            *)
TypeOK ==
    /\ sent \in Seq(Sizes)
    /\ earlier \in 0..Len(sent)
    /\ wire \in Seq(Byte) /\ sock \in Seq(Byte)
    /\ open \in BOOLEAN
    /\ connections \in 0..MaxConnections
    /\ first_packet \in BOOLEAN
    /\ more_coming = ~first_packet
    /\ expected_length \in Nat
    /\ buffer \in Seq(Byte)
    /\ Len(buffer) <= BufSize
    /\ ~first_packet => Len(buffer) < expected_length
    /\ handed \in Seq(Seq(Byte))
    /\ fault \in {"none", "underflow", "overrun"}

(* The order of the bytes of all documents, and of stretches of them. *)
Before(x, y) == x.doc < y.doc \/ (x.doc = y.doc /\ x.at < y.at)
Increasing(s) == \A i, j \in DOMAIN s : i < j => Before(s[i], s[j])
Precedes(s, t) == \A i \in DOMAIN s, j \in DOMAIN t : Before(s[i], t[j])
From(s, document) == \A i \in DOMAIN s : s[i].doc > document

(* However TCP cuts the stream, and however many documents come at once, no *)
(* byte is handed over twice and none before one sent earlier: the buffer   *)
(* is filled and restarted (1254, 1266) without reusing what was in it.     *)
HandedInOrder ==
    /\ \A m \in DOMAIN handed : Increasing(handed[m])
    /\ \A m, n \in DOMAIN handed : m < n => Precedes(handed[m], handed[n])

(* Half a document that a lost connection left in the buffer is not         *)
(* completed with bytes of the next connection (1165-1167).                 *)
NoLeftovers == \A m \in DOMAIN handed : From(handed[m], earlier)

(* What is sent on a connection is handed over unless the connection is lost. *)
EveryDocumentArrives ==
    \A n \in 1..MaxDocs :
        (open /\ Len(sent) = n) ~> (earlier + Len(handed) >= n \/ ~open)

(* Documents arrive whole, once and in order. *)
Channel == INSTANCE DocumentChannel
    WITH sent <- [document \in DOMAIN sent |-> Xml(document, sent[document])]

DeliversDocuments == Channel!Spec
=============================================================================
