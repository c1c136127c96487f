------------------------- MODULE PacketFramingProofs ------------------------
(***************************************************************************)
(* Proofs about PacketFraming, for all document and buffer sizes, all ways *)
(* to cut the stream, and all bounds: bytes are handed over in order; and, *)
(* where frames are kept together, documents are delivered as promised by  *)
(* DocumentChannel.                                                        *)
(***************************************************************************)
EXTENDS PacketFraming, TLAPS

(* What the buffer holds of a document that is not complete. *)
Collected == IF first_packet THEN << >> ELSE buffer

UpTo(s, document) == \A i \in DOMAIN s : s[i].doc <= document

(***************************************************************************)
(* The inductive invariant.  That what was handed over is in order follows *)
(* from the order of everything that may still be: bytes handed over come  *)
(* before those collected, these before those that can be read, and these  *)
(* before those on their way; and all were sent on this connection.        *)
(***************************************************************************)
PiecesInOrder ==
    /\ Increasing(Collected)
    /\ Increasing(sock)
    /\ Increasing(wire)
    /\ Precedes(Collected, sock)
    /\ Precedes(Collected, wire)
    /\ Precedes(sock, wire)

HandedComesFirst ==
    \A m \in DOMAIN handed :
        /\ Precedes(handed[m], Collected)
        /\ Precedes(handed[m], sock)
        /\ Precedes(handed[m], wire)

SentOnThisConnection ==
    /\ From(Collected, earlier) /\ UpTo(Collected, Len(sent))
    /\ From(sock, earlier) /\ UpTo(sock, Len(sent))
    /\ From(wire, earlier) /\ UpTo(wire, Len(sent))
    /\ \A m \in DOMAIN handed : UpTo(handed[m], Len(sent))
    /\ ~open => sock = << >> /\ wire = << >>

IInv ==
    /\ TypeOK
    /\ HandedInOrder
    /\ NoLeftovers
    /\ PiecesInOrder
    /\ HandedComesFirst
    /\ SentOnThisConnection
-----------------------------------------------------------------------------
(* What the stretches of a stretch keep. *)

(* The stretch t of bytes is taken from s, without a change of order. *)
Within(t, s) ==
    \E d \in Nat : \A i \in DOMAIN t : i + d \in DOMAIN s /\ t[i] = s[i + d]

(* SubSeq returns a stretch, with so many bytes. *)
LEMMA SubSeqWithin ==
  ASSUME NEW s \in Seq(Byte), NEW a \in Nat \ {0}, NEW b \in 0..Len(s)
  PROVE  /\ SubSeq(s, a, b) \in Seq(Byte)
         /\ Len(SubSeq(s, a, b)) = IF a <= b THEN b - a + 1 ELSE 0
         /\ Within(SubSeq(s, a, b), s)
  <1>1. /\ SubSeq(s, a, b) \in Seq(Byte)
        /\ Len(SubSeq(s, a, b)) = IF a <= b THEN b - a + 1 ELSE 0
        /\ \A i \in 1..Len(SubSeq(s, a, b)) : SubSeq(s, a, b)[i] = s[i + (a - 1)]
    OBVIOUS
  <1>2. a - 1 \in Nat
    OBVIOUS
  <1>3. \A i \in DOMAIN SubSeq(s, a, b) :
            i + (a - 1) \in DOMAIN s /\ SubSeq(s, a, b)[i] = s[i + (a - 1)]
    BY <1>1
  <1>. QED
    BY <1>1, <1>2, <1>3 DEF Within

(* A stretch of an increasing stretch increases, *)
LEMMA WithinIncreasing ==
  ASSUME NEW s \in Seq(Byte), NEW t \in Seq(Byte), Within(t, s), Increasing(s)
  PROVE  Increasing(t)
  BY DEF Within, Increasing

(* stays behind what its whole is behind, *)
LEMMA WithinBehind ==
  ASSUME NEW s \in Seq(Byte), NEW t \in Seq(Byte), Within(t, s),
         NEW r \in Seq(Byte), Precedes(r, s)
  PROVE  Precedes(r, t)
  BY DEF Within, Precedes

(* and before what its whole is before. *)
LEMMA WithinAhead ==
  ASSUME NEW s \in Seq(Byte), NEW t \in Seq(Byte), Within(t, s),
         NEW r \in Seq(Byte), Precedes(s, r)
  PROVE  Precedes(t, r)
  BY DEF Within, Precedes

(* It comes from the documents its whole comes from. *)
LEMMA WithinDocuments ==
  ASSUME NEW s \in Seq(Byte), NEW t \in Seq(Byte), Within(t, s), NEW n \in Nat
  PROVE  /\ From(s, n) => From(t, n)
         /\ UpTo(s, n) => UpTo(t, n)
  BY DEF Within, From, UpTo

(* The two parts of an increasing stretch are in order. *)
LEMMA PartsInOrder ==
  ASSUME NEW s \in Seq(Byte), NEW a \in 0..Len(s), Increasing(s)
  PROVE  Precedes(SubSeq(s, 1, a), SubSeq(s, a + 1, Len(s)))
  <1>1. \A i \in DOMAIN SubSeq(s, 1, a) : i <= a /\ i \in DOMAIN s /\ SubSeq(s, 1, a)[i] = s[i]
    OBVIOUS
  <1>2. \A j \in DOMAIN SubSeq(s, a + 1, Len(s)) :
            /\ j + a > a
            /\ j + a \in DOMAIN s
            /\ SubSeq(s, a + 1, Len(s))[j] = s[j + a]
    OBVIOUS
  <1>. QED
    BY <1>1, <1>2 DEF Precedes, Increasing

(* What two stretches that follow each other have in common, their *)
(* concatenation has.                                               *)
LEMMA Joined ==
  ASSUME NEW s \in Seq(Byte), NEW t \in Seq(Byte)
  PROVE  /\ s \o t \in Seq(Byte)
         /\ Len(s \o t) = Len(s) + Len(t)
         /\ Increasing(s) /\ Increasing(t) /\ Precedes(s, t) => Increasing(s \o t)
         /\ \A r \in Seq(Byte) :
               /\ Precedes(r, s) /\ Precedes(r, t) => Precedes(r, s \o t)
               /\ Precedes(s, r) /\ Precedes(t, r) => Precedes(s \o t, r)
         /\ \A n \in Nat :
               /\ From(s, n) /\ From(t, n) => From(s \o t, n)
               /\ UpTo(s, n) /\ UpTo(t, n) => UpTo(s \o t, n)
  <1>1. s \o t \in Seq(Byte) /\ Len(s \o t) = Len(s) + Len(t)
    OBVIOUS
  <1>2. \A i \in DOMAIN (s \o t) :
            \/ i \in DOMAIN s /\ (s \o t)[i] = s[i]
            \/ i > Len(s) /\ i - Len(s) \in DOMAIN t /\ (s \o t)[i] = t[i - Len(s)]
    OBVIOUS
  <1>3. Increasing(s) /\ Increasing(t) /\ Precedes(s, t) => Increasing(s \o t)
    <2>. SUFFICES ASSUME Increasing(s), Increasing(t), Precedes(s, t),
                         NEW i \in DOMAIN (s \o t), NEW j \in DOMAIN (s \o t), i < j
                  PROVE  Before((s \o t)[i], (s \o t)[j])
      BY DEF Increasing
    <2>1. CASE i \in DOMAIN s /\ (s \o t)[i] = s[i]
      BY <1>2, <2>1 DEF Increasing, Precedes
    <2>2. CASE i > Len(s) /\ i - Len(s) \in DOMAIN t /\ (s \o t)[i] = t[i - Len(s)]
      <3>1. j > Len(s) /\ j - Len(s) \in DOMAIN t /\ (s \o t)[j] = t[j - Len(s)]
        BY <1>1, <1>2, <2>2
      <3>2. i - Len(s) < j - Len(s)
        BY <1>1
      <3>. QED
        BY <2>2, <3>1, <3>2 DEF Increasing
    <2>. QED
      BY <1>2, <2>1, <2>2
  <1>. QED
    BY <1>1, <1>2, <1>3 DEF Precedes, From, UpTo

(* The frame of a new document increases and comes behind all there was. *)
LEMMA FrameIsNew ==
  ASSUME NEW document \in Nat, NEW size \in Sizes
  PROVE  /\ Frame(document, size) \in Seq(Byte)
         /\ Increasing(Frame(document, size))
         /\ \A r \in Seq(Byte), n \in Nat :
               UpTo(r, n) /\ n < document => Precedes(r, Frame(document, size))
         /\ \A n \in Nat : n < document => From(Frame(document, size), n)
         /\ UpTo(Frame(document, size), document)
  <1>. Digits \in Nat /\ size \in Nat
    BY FramingAssumption
  <1>1. Frame(document, size) \in Seq(Byte)
    BY DEF Frame, Byte
  <1>2. \A i \in DOMAIN Frame(document, size) :
            /\ i \in Nat
            /\ Frame(document, size)[i] = [doc |-> document, at |-> i - Digits - 1]
    BY DEF Frame
  <1>3. Increasing(Frame(document, size))
    BY <1>2 DEF Increasing, Before
  <1>4. UpTo(Frame(document, size), document)
    BY <1>2 DEF UpTo
  <1>5. \A n \in Nat : n < document => From(Frame(document, size), n)
    BY <1>2 DEF From
  <1>6. ASSUME NEW r \in Seq(Byte), NEW n \in Nat, UpTo(r, n), n < document
        PROVE  Precedes(r, Frame(document, size))
    <2>. SUFFICES ASSUME NEW i \in DOMAIN r, NEW j \in DOMAIN Frame(document, size)
                  PROVE  r[i].doc < Frame(document, size)[j].doc
      BY DEF Precedes, Before
    <2>1. r[i] \in Byte /\ r[i].doc <= n
      BY <1>6 DEF UpTo
    <2>2. Frame(document, size)[j].doc = document
      BY <1>2
    <2>. QED
      BY <1>6, <2>1, <2>2 DEF Byte
  <1>. QED
    BY <1>1, <1>3, <1>4, <1>5, <1>6
-----------------------------------------------------------------------------
(* The steps. *)

(* Nothing has arrived, and nothing is collected. *)
LEMMA InitOk == Init => IInv
  <1>. SUFFICES ASSUME Init PROVE IInv
    OBVIOUS
  <1>1. Collected = << >> /\ sock = << >> /\ wire = << >> /\ handed = << >>
    BY DEF Init, Collected
  <1>2. TypeOK
    <2>1. \A S : << >> \in Seq(S) /\ Len(<< >>) = 0
      OBVIOUS
    <2>2. 0 \in 0..0 /\ 0 \in 0..MaxConnections /\ 0 <= BufSize /\ 0 \in Nat
      BY FramingAssumption
    <2>. QED
      BY <2>1, <2>2 DEF Init, TypeOK
  <1>3. HandedInOrder /\ NoLeftovers /\ HandedComesFirst
    BY <1>1 DEF HandedInOrder, NoLeftovers, HandedComesFirst
  <1>4. PiecesInOrder
    BY <1>1 DEF PiecesInOrder, Increasing, Precedes
  <1>5. SentOnThisConnection
    BY <1>1 DEF SentOnThisConnection, From, UpTo
  <1>. QED
    BY <1>2, <1>3, <1>4, <1>5 DEF IInv

(* A new document lengthens what is on its way. *)
LEMMA SendKeeps ==
  ASSUME IInv, NEW size \in Sizes, Send(size)
  PROVE  IInv'
  <1>. DEFINE frame == Frame(Len(sent) + 1, size)
  <1>1. /\ sent \in Seq(Sizes) /\ earlier \in 0..Len(sent)
        /\ wire \in Seq(Byte) /\ sock \in Seq(Byte) /\ Collected \in Seq(Byte)
        /\ \A m \in DOMAIN handed : handed[m] \in Seq(Byte)
    BY DEF IInv, TypeOK, Collected
  <1>2. /\ sent' \in Seq(Sizes) /\ Len(sent') = Len(sent) + 1
        /\ wire' = wire \o frame
        /\ UNCHANGED <<client, Collected, earlier, sock, link, handed, fault>>
    BY <1>1 DEF Send, client, Collected
  <1>3. /\ frame \in Seq(Byte)
        /\ Increasing(frame)
        /\ \A r \in Seq(Byte) : UpTo(r, Len(sent)) => Precedes(r, frame)
        /\ From(frame, earlier)
        /\ UpTo(frame, Len(sent'))
    <2>1. Len(sent) \in Nat /\ Len(sent) + 1 \in Nat /\ Len(sent) < Len(sent) + 1
          /\ earlier \in Nat /\ earlier < Len(sent) + 1
      BY <1>1
    <2>. QED
      BY <2>1, <1>2, FrameIsNew
  <1>4. \A r \in Seq(Byte) : UpTo(r, Len(sent)) => UpTo(r, Len(sent'))
    <2>. SUFFICES ASSUME NEW r \in Seq(Byte), UpTo(r, Len(sent)), NEW i \in DOMAIN r
                  PROVE  r[i].doc <= Len(sent')
      BY DEF UpTo
    <2>1. r[i] \in Byte /\ r[i].doc <= Len(sent)
      BY DEF UpTo
    <2>2. r[i].doc \in Nat /\ Len(sent) \in Nat
      BY <1>1, <2>1 DEF Byte
    <2>. QED
      BY <1>2, <2>1, <2>2
  <1>5. TypeOK'
    <2>1. wire' \in Seq(Byte) /\ earlier' \in 0..Len(sent')
      BY <1>1, <1>2, <1>3
    <2>. QED
      BY <1>2, <2>1 DEF IInv, TypeOK, client, link
  <1>6. HandedInOrder' /\ NoLeftovers'
    BY <1>2 DEF IInv, HandedInOrder, NoLeftovers
  <1>7. PiecesInOrder'
    <2>1. /\ Increasing(wire) /\ UpTo(wire, Len(sent))
          /\ Precedes(Collected, wire) /\ UpTo(Collected, Len(sent))
          /\ Precedes(sock, wire) /\ UpTo(sock, Len(sent))
      BY DEF IInv, PiecesInOrder, SentOnThisConnection
    <2>2. Increasing(wire') /\ Precedes(Collected, wire') /\ Precedes(sock, wire')
      BY <1>1, <1>2, <1>3, <2>1, Joined
    <2>. QED
      BY <1>2, <2>2 DEF IInv, PiecesInOrder
  <1>8. HandedComesFirst'
    <2>1. \A m \in DOMAIN handed : Precedes(handed[m], wire) /\ UpTo(handed[m], Len(sent))
      BY DEF IInv, HandedComesFirst, SentOnThisConnection
    <2>2. \A m \in DOMAIN handed : Precedes(handed[m], wire')
      BY <1>1, <1>2, <1>3, <2>1, Joined
    <2>. QED
      BY <1>2, <2>2 DEF IInv, HandedComesFirst
  <1>9. SentOnThisConnection'
    <2>1. From(wire', earlier') /\ UpTo(wire', Len(sent'))
      <3>1. From(wire, earlier) /\ UpTo(wire, Len(sent')) /\ earlier \in Nat /\ Len(sent') \in Nat
        BY <1>1, <1>2, <1>4 DEF IInv, SentOnThisConnection
      <3>. QED
        BY <1>1, <1>2, <1>3, <3>1, Joined
    <2>. QED
      BY <1>1, <1>2, <1>4, <2>1 DEF IInv, SentOnThisConnection, Send, link
  <1>. QED
    BY <1>5, <1>6, <1>7, <1>8, <1>9 DEF IInv

(* Bytes that arrive change places, and nothing overtakes them. *)
LEMMA ArriveKeeps ==
  ASSUME IInv, NEW n \in DOMAIN wire, Arrive(n)
  PROVE  IInv'
  <1>. DEFINE front == SubSeq(wire, 1, n)
              rest == SubSeq(wire, n + 1, Len(wire))
  <1>1. /\ sent \in Seq(Sizes) /\ earlier \in Nat /\ Len(sent) \in Nat
        /\ wire \in Seq(Byte) /\ sock \in Seq(Byte) /\ Collected \in Seq(Byte)
        /\ \A m \in DOMAIN handed : handed[m] \in Seq(Byte)
        /\ n \in 1..Len(wire)
    BY DEF IInv, TypeOK, Collected
  <1>2. /\ sock' = sock \o front
        /\ wire' = rest
        /\ open /\ open' = open
        /\ UNCHANGED <<client, Collected, sent, earlier, link, handed, fault>>
    BY DEF Arrive, client, Collected, link
  <1>3. /\ front \in Seq(Byte) /\ Within(front, wire)
        /\ rest \in Seq(Byte) /\ Within(rest, wire)
        /\ Precedes(front, rest)
    <2>1. front \in Seq(Byte) /\ Within(front, wire)
      BY <1>1, SubSeqWithin
    <2>2. rest \in Seq(Byte) /\ Within(rest, wire)
      <3>1. n + 1 \in Nat \ {0} /\ Len(wire) \in 0..Len(wire)
        BY <1>1
      <3>. QED
        BY <1>1, <3>1, SubSeqWithin
    <2>3. Precedes(front, rest)
      <3>1. Increasing(wire) /\ n \in 0..Len(wire)
        BY <1>1 DEF IInv, PiecesInOrder
      <3>. QED
        BY <1>1, <3>1, PartsInOrder
    <2>. QED
      BY <2>1, <2>2, <2>3
  <1>4. /\ Increasing(front) /\ Increasing(rest)
        /\ \A r \in Seq(Byte) : Precedes(r, wire) => Precedes(r, front) /\ Precedes(r, rest)
        /\ From(front, earlier) /\ UpTo(front, Len(sent))
        /\ From(rest, earlier) /\ UpTo(rest, Len(sent))
    <2>1. Increasing(wire) /\ From(wire, earlier) /\ UpTo(wire, Len(sent))
      BY DEF IInv, PiecesInOrder, SentOnThisConnection
    <2>2. Increasing(front) /\ Increasing(rest)
      BY <1>1, <1>3, <2>1, WithinIncreasing
    <2>3. \A r \in Seq(Byte) : Precedes(r, wire) => Precedes(r, front) /\ Precedes(r, rest)
      BY <1>1, <1>3, WithinBehind
    <2>. QED
      BY <1>1, <1>3, <2>1, <2>2, <2>3, WithinDocuments
  <1>5. sock' \in Seq(Byte) /\ wire' \in Seq(Byte)
    BY <1>1, <1>2, <1>3
  <1>6. TypeOK'
    BY <1>2, <1>5 DEF IInv, TypeOK, client, link
  <1>7. HandedInOrder' /\ NoLeftovers'
    BY <1>2 DEF IInv, HandedInOrder, NoLeftovers
  <1>8. PiecesInOrder'
    <2>1. /\ Increasing(sock) /\ Precedes(sock, wire)
          /\ Precedes(Collected, sock) /\ Precedes(Collected, wire)
      BY DEF IInv, PiecesInOrder
    <2>2. Precedes(sock, front) /\ Precedes(sock, rest)
          /\ Precedes(Collected, front) /\ Precedes(Collected, rest)
      BY <1>1, <1>4, <2>1
    <2>3. Increasing(sock') /\ Precedes(Collected, sock') /\ Precedes(sock', wire')
      BY <1>1, <1>2, <1>3, <1>4, <2>1, <2>2, Joined
    <2>. QED
      BY <1>2, <1>4, <2>2, <2>3 DEF IInv, PiecesInOrder
  <1>9. HandedComesFirst'
    <2>1. \A m \in DOMAIN handed : Precedes(handed[m], wire) /\ Precedes(handed[m], sock)
      BY DEF IInv, HandedComesFirst
    <2>2. \A m \in DOMAIN handed : Precedes(handed[m], sock') /\ Precedes(handed[m], wire')
      BY <1>1, <1>2, <1>3, <1>4, <2>1, Joined
    <2>. QED
      BY <1>2, <2>2 DEF IInv, HandedComesFirst
  <1>10. SentOnThisConnection'
    <2>1. From(sock', earlier) /\ UpTo(sock', Len(sent))
      BY <1>1, <1>2, <1>3, <1>4, Joined DEF IInv, SentOnThisConnection
    <2>. QED
      BY <1>2, <1>4, <2>1 DEF IInv, SentOnThisConnection
  <1>. QED
    BY <1>6, <1>7, <1>8, <1>9, <1>10 DEF IInv

(* What is read, and what is left to be read, are the two parts of what has *)
(* arrived.                                                                 *)
LEMMA Halves ==
  ASSUME IInv, sock # << >>
  PROVE  /\ Chunk \in Seq(Byte) /\ Unread \in Seq(Byte)
         /\ Len(Chunk) \in 1..BufSize
         /\ Within(Chunk, sock) /\ Within(Unread, sock)
         /\ Precedes(Chunk, Unread)
  <1>1. /\ sock \in Seq(Byte) /\ Len(sock) \in Nat \ {0} /\ BufSize \in Nat \ {0}
        /\ Increasing(sock)
    BY FramingAssumption DEF IInv, TypeOK, PiecesInOrder
  <1>2. ChunkLength \in 1..Len(sock) /\ ChunkLength <= BufSize
    BY <1>1 DEF ChunkLength
  <1>3. /\ Chunk \in Seq(Byte) /\ Len(Chunk) = ChunkLength
        /\ Within(Chunk, sock)
    <2>1. 1 \in Nat \ {0} /\ ChunkLength \in 0..Len(sock) /\ ChunkLength - 1 + 1 = ChunkLength
      BY <1>1, <1>2
    <2>. QED
      BY <1>1, <1>2, <2>1, SubSeqWithin DEF Chunk
  <1>4. Unread \in Seq(Byte) /\ Within(Unread, sock)
    <2>1. ChunkLength + 1 \in Nat \ {0} /\ Len(sock) \in 0..Len(sock)
      BY <1>1, <1>2
    <2>. QED
      BY <1>1, <2>1, SubSeqWithin DEF Unread
  <1>5. Precedes(Chunk, Unread)
    <2>1. ChunkLength \in 0..Len(sock)
      BY <1>1, <1>2
    <2>. QED
      BY <1>1, <2>1, PartsInOrder DEF Chunk, Unread
  <1>. QED
    BY <1>1, <1>2, <1>3, <1>4, <1>5

(* A document that is complete is handed over behind all that were, and one *)
(* that is not is kept in front of all that is to come.                     *)
LEMMA ReceivedKeeps ==
  ASSUME IInv, Reads, UNCHANGED fault,
         NEW content \in Seq(Byte), NEW length \in Nat, Received(content, length),
         Len(content) <= BufSize,
         Increasing(content), Precedes(content, Unread), Precedes(content, wire),
         \A m \in DOMAIN handed : Precedes(handed[m], content),
         From(content, earlier), UpTo(content, Len(sent))
  PROVE  IInv'
  <1>1. /\ sent \in Seq(Sizes) /\ earlier \in Nat /\ Len(sent) \in Nat
        /\ wire \in Seq(Byte) /\ sock \in Seq(Byte)
        /\ handed \in Seq(Seq(Byte))
        /\ Unread \in Seq(Byte) /\ Within(Unread, sock)
    BY Halves DEF IInv, TypeOK, Reads
  <1>2. /\ open /\ open' = open
        /\ sock' = Unread
        /\ UNCHANGED <<sent, earlier, wire, connections, fault>>
    BY DEF Reads, stream, link
  <1>3. /\ Increasing(Unread) /\ Precedes(Unread, wire)
        /\ From(Unread, earlier) /\ UpTo(Unread, Len(sent))
        /\ \A m \in DOMAIN handed : Precedes(handed[m], Unread)
    <2>1. Increasing(Unread) /\ Precedes(Unread, wire)
      BY <1>1, WithinIncreasing, WithinAhead DEF IInv, PiecesInOrder
    <2>2. From(Unread, earlier) /\ UpTo(Unread, Len(sent))
      BY <1>1, WithinDocuments DEF IInv, SentOnThisConnection
    <2>3. ASSUME NEW m \in DOMAIN handed
          PROVE  Precedes(handed[m], Unread)
      <3>1. handed[m] \in Seq(Byte) /\ Precedes(handed[m], sock)
        BY <1>1 DEF IInv, HandedComesFirst
      <3>. QED
        BY <1>1, <3>1, WithinBehind
    <2>. QED
      BY <2>1, <2>2, <2>3
  <1>4. CASE Len(content) < length
    <2>1. /\ buffer' = content /\ expected_length' = length
          /\ more_coming' = TRUE /\ first_packet' = FALSE
          /\ handed' = handed
      BY <1>4 DEF Received, Kept
    <2>2. Collected' = content
      BY <2>1 DEF Collected
    <2>3. TypeOK'
      BY <1>1, <1>2, <1>4, <2>1 DEF IInv, TypeOK
    <2>4. HandedInOrder' /\ NoLeftovers'
      BY <1>2, <2>1 DEF IInv, HandedInOrder, NoLeftovers
    <2>5. PiecesInOrder'
      BY <1>2, <1>3, <2>2 DEF IInv, PiecesInOrder
    <2>6. HandedComesFirst'
      BY <1>2, <1>3, <2>1, <2>2 DEF IInv, HandedComesFirst
    <2>7. SentOnThisConnection'
      BY <1>2, <1>3, <2>1, <2>2 DEF IInv, SentOnThisConnection
    <2>. QED
      BY <2>3, <2>4, <2>5, <2>6, <2>7 DEF IInv
  <1>5. CASE length <= Len(content)
    <2>. DEFINE document == SubSeq(content, 1, length)
    <2>1. /\ buffer' = content /\ expected_length' = length
          /\ more_coming' = FALSE /\ first_packet' = TRUE
          /\ handed' = Append(handed, document)
      BY <1>5 DEF Received, Taken
    <2>2. Collected' = << >>
      BY <2>1 DEF Collected
    <2>3. document \in Seq(Byte) /\ Within(document, content)
      <3>1. 1 \in Nat \ {0} /\ length \in 0..Len(content)
        BY <1>5
      <3>. QED
        BY <3>1, SubSeqWithin
    <2>4. /\ Increasing(document) /\ Precedes(document, Unread) /\ Precedes(document, wire)
          /\ From(document, earlier) /\ UpTo(document, Len(sent))
          /\ \A m \in DOMAIN handed : Precedes(handed[m], document)
      <3>1. Increasing(document) /\ Precedes(document, Unread) /\ Precedes(document, wire)
        BY <1>1, <2>3, WithinIncreasing, WithinAhead
      <3>2. From(document, earlier) /\ UpTo(document, Len(sent))
        BY <1>1, <2>3, WithinDocuments
      <3>3. \A m \in DOMAIN handed : handed[m] \in Seq(Byte)
        BY <1>1
      <3>. QED
        BY <2>3, <3>1, <3>2, <3>3, WithinBehind
    <2>5. /\ handed' \in Seq(Seq(Byte))
          /\ DOMAIN handed' = DOMAIN handed \cup {Len(handed) + 1}
          /\ \A m \in DOMAIN handed : handed'[m] = handed[m] /\ m < Len(handed) + 1
          /\ handed'[Len(handed) + 1] = document
      BY <1>1, <2>1, <2>3
    <2>6. TypeOK'
      BY <1>1, <1>2, <2>1, <2>5 DEF IInv, TypeOK
    <2>7. HandedInOrder'
      <3>1. \A m \in DOMAIN handed' : Increasing(handed'[m])
        BY <2>4, <2>5 DEF IInv, HandedInOrder
      <3>2. ASSUME NEW m \in DOMAIN handed', NEW n \in DOMAIN handed', m < n
            PROVE  Precedes(handed'[m], handed'[n])
        <4>1. m \in DOMAIN handed
          BY <1>1, <2>5, <3>2
        <4>. QED
          BY <2>4, <2>5, <3>2, <4>1 DEF IInv, HandedInOrder
      <3>. QED
        BY <3>1, <3>2 DEF HandedInOrder
    <2>8. NoLeftovers'
      BY <1>2, <2>4, <2>5 DEF IInv, NoLeftovers
    <2>9. PiecesInOrder'
      BY <1>2, <1>3, <2>2 DEF IInv, PiecesInOrder, Increasing, Precedes
    <2>10. HandedComesFirst'
      <3>1. \A m \in DOMAIN handed' : Precedes(handed'[m], sock') /\ Precedes(handed'[m], wire')
        BY <1>2, <1>3, <2>4, <2>5 DEF IInv, HandedComesFirst
      <3>2. \A s : Precedes(s, << >>)
        BY DEF Precedes
      <3>. QED
        BY <2>2, <3>1, <3>2 DEF HandedComesFirst
    <2>11. SentOnThisConnection'
      <3>1. \A m \in DOMAIN handed' : UpTo(handed'[m], Len(sent'))
        BY <1>2, <2>4, <2>5 DEF IInv, SentOnThisConnection
      <3>2. From(<< >>, earlier') /\ UpTo(<< >>, Len(sent'))
        BY DEF From, UpTo
      <3>. QED
        BY <1>2, <1>3, <2>2, <3>1, <3>2 DEF IInv, SentOnThisConnection
    <2>. QED
      BY <2>6, <2>7, <2>8, <2>9, <2>10, <2>11 DEF IInv
  <1>. QED
    BY <1>1, <1>4, <1>5

(* What is read lies behind all that was handed over and collected. *)
LEMMA ChunkInPlace ==
  ASSUME IInv, sock # << >>
  PROVE  /\ Increasing(Chunk) /\ Precedes(Chunk, Unread) /\ Precedes(Chunk, wire)
         /\ Precedes(Collected, Chunk) /\ Precedes(Collected, Unread)
         /\ \A m \in DOMAIN handed : Precedes(handed[m], Chunk)
         /\ From(Chunk, earlier) /\ UpTo(Chunk, Len(sent))
  <1>1. /\ earlier \in Nat /\ Len(sent) \in Nat
        /\ wire \in Seq(Byte) /\ sock \in Seq(Byte) /\ Collected \in Seq(Byte)
        /\ \A m \in DOMAIN handed : handed[m] \in Seq(Byte)
    BY DEF IInv, TypeOK, Collected
  <1>2. /\ Chunk \in Seq(Byte) /\ Unread \in Seq(Byte)
        /\ Within(Chunk, sock) /\ Within(Unread, sock)
        /\ Precedes(Chunk, Unread)
    BY Halves
  <1>3. Increasing(Chunk) /\ Precedes(Chunk, wire)
    BY <1>1, <1>2, WithinIncreasing, WithinAhead DEF IInv, PiecesInOrder
  <1>4. Precedes(Collected, Chunk) /\ Precedes(Collected, Unread)
    BY <1>1, <1>2, WithinBehind DEF IInv, PiecesInOrder
  <1>5. \A m \in DOMAIN handed : Precedes(handed[m], Chunk)
    BY <1>1, <1>2, WithinBehind DEF IInv, HandedComesFirst
  <1>6. From(Chunk, earlier) /\ UpTo(Chunk, Len(sent))
    BY <1>1, <1>2, WithinDocuments DEF IInv, SentOnThisConnection
  <1>. QED
    BY <1>2, <1>3, <1>4, <1>5, <1>6

(* A first read collects what follows the NUL. *)
LEMMA ReadFirstKeeps ==
  ASSUME IInv, ReadFirst
  PROVE  IInv'
  <1>1. PICK null_starts \in 0..(Len(Chunk) - 1), length \in Lengths(Chunk) :
           Received(Payload(Chunk, null_starts), length)
    BY DEF ReadFirst
  <1>. DEFINE content == Payload(Chunk, null_starts)
  <1>2. /\ sock # << >> /\ Reads /\ UNCHANGED fault
        /\ earlier \in Nat /\ Len(sent) \in Nat
        /\ wire \in Seq(Byte) /\ sock \in Seq(Byte)
        /\ \A m \in DOMAIN handed : handed[m] \in Seq(Byte)
        /\ Chunk \in Seq(Byte) /\ Unread \in Seq(Byte)
        /\ Len(Chunk) \in 1..BufSize /\ BufSize \in Nat
    BY Halves, FramingAssumption DEF IInv, TypeOK, ReadFirst, Reads
  <1>3. content \in Seq(Byte) /\ Len(content) <= BufSize /\ Within(content, Chunk)
    <2>1. null_starts + 2 \in Nat \ {0} /\ Len(Chunk) \in 0..Len(Chunk) /\ Len(Chunk) \in Nat
      BY <1>2
    <2>2. /\ content \in Seq(Byte) /\ Within(content, Chunk)
          /\ Len(content) = IF null_starts + 2 <= Len(Chunk)
                            THEN Len(Chunk) - (null_starts + 2) + 1 ELSE 0
      BY <1>2, <2>1, SubSeqWithin DEF Payload
    <2>. QED
      BY <1>2, <2>1, <2>2
  <1>4. length \in Nat
    <2>1. Sizes \subseteq Nat
      BY FramingAssumption
    <2>2. sent[Chunk[1].doc] \in Sizes
      <3>1. 1 \in DOMAIN Chunk /\ Chunk[1] \in Byte
        BY <1>2
      <3>2. Chunk[1].doc \in Nat /\ Chunk[1].doc > earlier /\ Chunk[1].doc <= Len(sent)
        BY <1>2, <3>1, ChunkInPlace DEF From, UpTo, Byte
      <3>3. sent \in Seq(Sizes) /\ Chunk[1].doc \in 1..Len(sent)
        BY <1>2, <3>2 DEF IInv, TypeOK
      <3>. QED
        BY <3>3
    <2>3. Lengths(Chunk) \subseteq Nat
      <3>1. CASE IsFirstDigit(Chunk[1])
        BY <3>1, <2>1, <2>2 DEF Lengths
      <3>2. CASE ~IsFirstDigit(Chunk[1])
        BY <3>2, <2>1 DEF Lengths
      <3>. QED
        BY <3>1, <3>2
    <2>. QED
      BY <1>1, <2>3
  <1>5. /\ Increasing(content) /\ Precedes(content, Unread) /\ Precedes(content, wire)
        /\ \A m \in DOMAIN handed : Precedes(handed[m], content)
        /\ From(content, earlier) /\ UpTo(content, Len(sent))
    <2>1. Increasing(content) /\ Precedes(content, Unread) /\ Precedes(content, wire)
      BY <1>2, <1>3, ChunkInPlace, WithinIncreasing, WithinAhead
    <2>2. \A m \in DOMAIN handed : Precedes(handed[m], content)
      BY <1>2, <1>3, ChunkInPlace, WithinBehind
    <2>3. From(content, earlier) /\ UpTo(content, Len(sent))
      BY <1>2, <1>3, ChunkInPlace, WithinDocuments
    <2>. QED
      BY <2>1, <2>2, <2>3
  <1>. QED
    BY <1>1, <1>2, <1>3, <1>4, <1>5, ReceivedKeeps

(* A later read adds to what was collected. *)
LEMMA ReadMoreKeeps ==
  ASSUME IInv, ReadMore
  PROVE  IInv'
  <1>. DEFINE content == buffer \o Chunk
  <1>1. /\ sock # << >> /\ Reads /\ UNCHANGED fault
        /\ Received(content, expected_length)
        /\ buffer = Collected
        /\ earlier \in Nat /\ Len(sent) \in Nat /\ expected_length \in Nat
        /\ buffer \in Seq(Byte) /\ wire \in Seq(Byte)
        /\ \A m \in DOMAIN handed : handed[m] \in Seq(Byte)
        /\ Chunk \in Seq(Byte) /\ Unread \in Seq(Byte)
        /\ Len(buffer) + Len(Chunk) <= BufSize
    BY Halves DEF IInv, TypeOK, ReadMore, Reads, Collected
  <1>2. content \in Seq(Byte) /\ Len(content) <= BufSize
    BY <1>1, Joined
  <1>3. /\ Increasing(buffer) /\ Precedes(buffer, wire)
        /\ Precedes(buffer, Chunk) /\ Precedes(buffer, Unread)
        /\ \A m \in DOMAIN handed : Precedes(handed[m], buffer)
        /\ From(buffer, earlier) /\ UpTo(buffer, Len(sent))
    BY <1>1, ChunkInPlace DEF IInv, PiecesInOrder, HandedComesFirst, SentOnThisConnection
  <1>4. /\ Increasing(content) /\ Precedes(content, Unread) /\ Precedes(content, wire)
        /\ From(content, earlier) /\ UpTo(content, Len(sent))
    BY <1>1, <1>3, ChunkInPlace, Joined
  <1>5. \A m \in DOMAIN handed : Precedes(handed[m], content)
    BY <1>1, <1>3, ChunkInPlace, Joined
  <1>. QED
    BY <1>1, <1>2, <1>4, <1>5, ReceivedKeeps

(* After a fault the bytes left are still in order. *)
LEMMA FaultKeeps ==
  ASSUME IInv, ReadFirst_underflow \/ ReadMore_overrun
  PROVE  IInv'
  <1>1. /\ sock # << >> /\ open /\ open' = open
        /\ sock' = Unread
        /\ UNCHANGED <<client, Collected, sent, earlier, wire, connections, handed>>
        /\ fault' \in {"underflow", "overrun"}
    BY DEF ReadFirst_underflow, ReadMore_overrun, Reads, stream, link, client, Collected
  <1>2. /\ earlier \in Nat /\ Len(sent) \in Nat
        /\ wire \in Seq(Byte) /\ sock \in Seq(Byte) /\ Collected \in Seq(Byte)
        /\ \A m \in DOMAIN handed : handed[m] \in Seq(Byte)
        /\ Unread \in Seq(Byte) /\ Within(Unread, sock)
    BY <1>1, Halves DEF IInv, TypeOK, Collected
  <1>3. /\ Increasing(Unread) /\ Precedes(Unread, wire)
        /\ Precedes(Collected, Unread)
        /\ From(Unread, earlier) /\ UpTo(Unread, Len(sent))
    BY <1>1, <1>2, ChunkInPlace, WithinIncreasing, WithinAhead, WithinDocuments
       DEF IInv, PiecesInOrder, SentOnThisConnection
  <1>4. \A m \in DOMAIN handed : Precedes(handed[m], Unread)
    BY <1>2, WithinBehind DEF IInv, HandedComesFirst
  <1>5. TypeOK'
    BY <1>1, <1>2 DEF IInv, TypeOK, client
  <1>6. HandedInOrder' /\ NoLeftovers'
    BY <1>1 DEF IInv, HandedInOrder, NoLeftovers
  <1>7. PiecesInOrder' /\ HandedComesFirst'
    BY <1>1, <1>3, <1>4 DEF IInv, PiecesInOrder, HandedComesFirst
  <1>8. SentOnThisConnection'
    BY <1>1, <1>3 DEF IInv, SentOnThisConnection
  <1>. QED
    BY <1>5, <1>6, <1>7, <1>8 DEF IInv

(* Whatever is unread when a connection is lost is gone. *)
LEMMA CloseKeeps ==
  ASSUME IInv, Close
  PROVE  IInv'
  <1>1. /\ sock' = << >> /\ wire' = << >> /\ open' = FALSE
        /\ UNCHANGED <<client, Collected, sent, earlier, connections, handed, fault>>
    BY DEF Close, client, Collected
  <1>2. TypeOK'
    <2>1. << >> \in Seq(Byte) /\ FALSE \in BOOLEAN
      OBVIOUS
    <2>. QED
      BY <1>1, <2>1 DEF IInv, TypeOK, client
  <1>3. HandedInOrder' /\ NoLeftovers'
    BY <1>1 DEF IInv, HandedInOrder, NoLeftovers
  <1>4. PiecesInOrder' /\ HandedComesFirst'
    BY <1>1 DEF IInv, PiecesInOrder, HandedComesFirst, Increasing, Precedes
  <1>5. SentOnThisConnection'
    BY <1>1 DEF IInv, SentOnThisConnection, From, UpTo
  <1>. QED
    BY <1>2, <1>3, <1>4, <1>5 DEF IInv

(* A new connection begins with an empty buffer. *)
LEMMA AcceptKeeps ==
  ASSUME IInv, async_accept
  PROVE  IInv'
  <1>1. /\ sock' = << >> /\ wire' = << >> /\ handed' = << >> /\ Collected' = << >>
        /\ open' = TRUE /\ buffer' = << >>
        /\ first_packet' = TRUE /\ more_coming' = FALSE /\ expected_length' = 0
        /\ earlier' = Len(sent) /\ sent' = sent /\ fault' = fault
        /\ connections < MaxConnections /\ connections' = connections + 1
    BY DEF async_accept, Collected, IInv, SentOnThisConnection
  <1>2. TypeOK'
    <2>1. \A S : << >> \in Seq(S) /\ Len(<< >>) = 0
      OBVIOUS
    <2>2. /\ Len(sent) \in 0..Len(sent) /\ 0 \in Nat /\ 0 <= BufSize
          /\ connections + 1 \in 0..MaxConnections
      BY <1>1, FramingAssumption DEF IInv, TypeOK
    <2>. QED
      BY <1>1, <2>1, <2>2 DEF IInv, TypeOK
  <1>3. HandedInOrder' /\ NoLeftovers' /\ HandedComesFirst'
    BY <1>1 DEF HandedInOrder, NoLeftovers, HandedComesFirst
  <1>4. PiecesInOrder'
    BY <1>1 DEF PiecesInOrder, Increasing, Precedes
  <1>5. SentOnThisConnection'
    BY <1>1 DEF SentOnThisConnection, From, UpTo
  <1>. QED
    BY <1>2, <1>3, <1>4, <1>5 DEF IInv

(* Nothing changes when nothing happens. *)
LEMMA StutterKeeps ==
  ASSUME IInv, UNCHANGED vars
  PROVE  IInv'
  BY DEF vars, client, stream, link, IInv, TypeOK, HandedInOrder, NoLeftovers, PiecesInOrder,
         HandedComesFirst, SentOnThisConnection, Collected
-----------------------------------------------------------------------------
(* Every step of engine, network and client keeps the bytes in order. *)
THEOREM Inductive == IInv /\ [Next]_vars => IInv'
  <1>. SUFFICES ASSUME IInv, [Next]_vars PROVE IInv'
    OBVIOUS
  <1>1. ASSUME NEW size \in Sizes, Send(size) PROVE IInv'
    BY <1>1, SendKeeps
  <1>2. CASE Delivers
    BY <1>2, ArriveKeeps DEF Delivers
  <1>3. CASE Read
    BY <1>3, ReadFirstKeeps, ReadMoreKeeps, FaultKeeps DEF Read
  <1>4. CASE Close
    BY <1>4, CloseKeeps
  <1>5. CASE async_accept
    BY <1>5, AcceptKeeps
  <1>6. CASE UNCHANGED vars
    BY <1>6, StutterKeeps
  <1>. QED
    BY <1>1, <1>2, <1>3, <1>4, <1>5, <1>6 DEF Next

(* Hence they always are, however the stream is cut. *)
THEOREM Invariance == Spec => []IInv
  <1>1. Init => IInv
    BY InitOk
  <1>2. IInv /\ [Next]_vars => IInv'
    BY Inductive
  <1>. QED
    BY <1>1, <1>2, PTL DEF Spec

(* current_pos never leaves client_state->buffer without a fault, and       *)
(* first_packet and more_coming never disagree (1250-1281).                 *)
THEOREM Typing == Spec => []TypeOK
  <1>1. IInv => TypeOK
    BY DEF IInv
  <1>. QED
    BY <1>1, Invariance, PTL

(* No byte reaches process_request twice, or before one sent earlier. *)
THEOREM DocumentsInOrder == Spec => []HandedInOrder
  <1>1. IInv => HandedInOrder
    BY DEF IInv
  <1>. QED
    BY <1>1, Invariance, PTL

(* No byte of a lost connection reaches process_request on the next one. *)
THEOREM ConnectionsApart == Spec => []NoLeftovers
  <1>1. IInv => NoLeftovers
    BY DEF IInv
  <1>. QED
    BY <1>1, Invariance, PTL
-----------------------------------------------------------------------------
(***************************************************************************)
(* Whole documents, for the assumptions of the run whole_frames: frames    *)
(* are cut only within their XML, a document is sent once the one before   *)
(* is used, header and document fit their buffers, and the first read does *)
(* not end exactly between a document and its trailing NUL.                *)
(***************************************************************************)
FramesKeptTogether ==
    /\ ~CutsFrames /\ ~Pipelined
    /\ Digits < BufSize
    /\ \A size \in Sizes : size < BufSize /\ size # BufSize - Digits - 1

LastSize == sent[Len(sent)]
LastFrame == Frame(Len(sent), LastSize)

(* The elements of s after the first a, up to b. *)
Stretch(s, a, b) == SubSeq(s, a + 1, b)

(* Everything sent was handed over. *)
Quiet ==
    /\ earlier + Len(handed) = Len(sent)
    /\ first_packet /\ sock = << >> /\ wire = << >>

(* Of the last document, a bytes arrived, r of which were read; the rest   *)
(* was handed over.                                                        *)
Underway(a, r) ==
    /\ earlier + Len(handed) + 1 = Len(sent)
    /\ r <= a
    /\ a \in {0} \cup ((Digits + 2)..(Digits + LastSize)) \cup {Digits + LastSize + 2}
    /\ sock = Stretch(LastFrame, r, a)
    /\ wire = Stretch(LastFrame, a, Digits + LastSize + 2)
    /\ first_packet <=> r = 0
    /\ r # 0 =>
         /\ r \in (Digits + 1)..(Digits + LastSize)
         /\ buffer = Stretch(LastFrame, Digits + 1, r)
         /\ expected_length = LastSize

OneByOne ==
    /\ fault = "none"
    /\ earlier + Len(handed) <= Len(sent)
    /\ open => Quiet \/ \E a, r \in 0..(Digits + LastSize + 2) : Underway(a, r)
-----------------------------------------------------------------------------
(* Sequences of bytes that agree everywhere are the same. *)
LEMMA SameBytes ==
    ASSUME NEW s \in Seq(Byte), NEW t \in Seq(Byte), Len(s) = Len(t),
           \A i \in 1..Len(s) : s[i] = t[i]
    PROVE  s = t
  OBVIOUS

(* The bytes of sequences side by side. *)
LEMMA SideBySide ==
    ASSUME NEW s \in Seq(Byte), NEW t \in Seq(Byte)
    PROVE  /\ s \o t \in Seq(Byte)
           /\ Len(s \o t) = Len(s) + Len(t)
           /\ \A k \in 1..Len(s) : (s \o t)[k] = s[k]
           /\ \A k \in 1..Len(t) : (s \o t)[Len(s) + k] = t[k]
  OBVIOUS

(* What a stretch is made of. *)
LEMMA StretchHas ==
    ASSUME NEW s \in Seq(Byte), NEW a \in 0..Len(s), NEW b \in a..Len(s)
    PROVE  /\ Stretch(s, a, b) \in Seq(Byte)
           /\ Len(Stretch(s, a, b)) = b - a
           /\ \A i \in 1..(b - a) : Stretch(s, a, b)[i] = s[a + i]
  BY DEF Stretch

(* A stretch of a stretch is one, *)
LEMMA StretchOfStretch ==
    ASSUME NEW s \in Seq(Byte), NEW a \in 0..Len(s), NEW b \in a..Len(s),
           NEW m \in 0..(b - a), NEW n \in m..(b - a)
    PROVE  Stretch(Stretch(s, a, b), m, n) = Stretch(s, a + m, a + n)
<1> DEFINE t == Stretch(s, a, b)
           u == Stretch(t, m, n)
           v == Stretch(s, a + m, a + n)
<1>1. t \in Seq(Byte) /\ Len(t) = b - a /\ \A i \in 1..(b - a) : t[i] = s[a + i]
  BY StretchHas
<1>2. m \in 0..Len(t) /\ n \in m..Len(t)
  BY <1>1
<1> HIDE DEF t
<1>3. u \in Seq(Byte) /\ Len(u) = n - m /\ \A i \in 1..(n - m) : u[i] = t[m + i]
  BY <1>1, <1>2, StretchHas
<1>4. a + m \in 0..Len(s) /\ a + n \in (a + m)..Len(s)
  OBVIOUS
<1>5. v \in Seq(Byte) /\ Len(v) = (a + n) - (a + m)
      /\ \A i \in 1..((a + n) - (a + m)) : v[i] = s[(a + m) + i]
  BY <1>4, StretchHas
<1> HIDE DEF u, v
<1>6. \A i \in 1..Len(u) : u[i] = v[i]
  <2> TAKE i \in 1..Len(u)
  <2>1. u[i] = t[m + i]
    BY <1>3
  <2>2. t[m + i] = s[a + (m + i)]
    BY <1>1, <1>3
  <2>3. v[i] = s[(a + m) + i]
    BY <1>3, <1>5
  <2>4. (a + m) + i = a + (m + i)
    BY <1>3
  <2> QED  BY <2>1, <2>2, <2>3, <2>4
<1>7. Len(u) = Len(v)
  BY <1>3, <1>5
<1>8. u = v
  BY <1>3, <1>5, <1>6, <1>7, SameBytes
<1> QED  BY <1>8 DEF t, u, v

(* and so are two side by side. *)
LEMMA StretchesJoin ==
    ASSUME NEW s \in Seq(Byte), NEW a \in 0..Len(s), NEW b \in a..Len(s), NEW c \in b..Len(s)
    PROVE  Stretch(s, a, b) \o Stretch(s, b, c) = Stretch(s, a, c)
<1> DEFINE t == Stretch(s, a, b)
           u == Stretch(s, b, c)
           v == Stretch(s, a, c)
           w == t \o u
<1>1. t \in Seq(Byte) /\ Len(t) = b - a /\ \A i \in 1..(b - a) : t[i] = s[a + i]
  BY StretchHas
<1>2. b \in 0..Len(s) /\ c \in a..Len(s)
  OBVIOUS
<1>3. u \in Seq(Byte) /\ Len(u) = c - b /\ \A i \in 1..(c - b) : u[i] = s[b + i]
  BY <1>2, StretchHas
<1>4. v \in Seq(Byte) /\ Len(v) = c - a /\ \A i \in 1..(c - a) : v[i] = s[a + i]
  BY <1>2, StretchHas
<1> HIDE DEF t, u, v
<1>5. /\ w \in Seq(Byte) /\ Len(w) = Len(t) + Len(u)
      /\ \A i \in 1..Len(t) : w[i] = t[i]
      /\ \A i \in 1..Len(u) : w[Len(t) + i] = u[i]
  BY <1>1, <1>3, SideBySide
<1> HIDE DEF w
<1>6. \A i \in 1..Len(w) : w[i] = v[i]
  <2> TAKE i \in 1..Len(w)
  <2>1. CASE i \in 1..(b - a)
    BY <1>1, <1>4, <1>5, <2>1
  <2>2. CASE i > b - a
    <3> DEFINE j == i - (b - a)
    <3>1. j \in 1..Len(u) /\ i = Len(t) + j /\ b + j = a + i
      BY <1>1, <1>3, <1>5, <2>2
    <3> HIDE DEF j
    <3>2. w[i] = u[j] /\ u[j] = s[b + j]
      BY <1>3, <1>5, <3>1
    <3>3. v[i] = s[a + i]
      <4>1. i \in 1..(c - a)
        BY <1>1, <1>3, <1>5
      <4> QED  BY <1>4, <4>1
    <3> QED  BY <3>1, <3>2, <3>3
  <2> QED  BY <1>1, <1>5, <2>1, <2>2
<1>7. Len(w) = Len(v)
  BY <1>1, <1>3, <1>4, <1>5
<1>8. w = v
  BY <1>4, <1>5, <1>6, <1>7, SameBytes
<1> QED  BY <1>8 DEF w, t, u, v

(* Where the bytes of a frame are, and which of them are NUL. *)
LEMMA FrameHas ==
    ASSUME NEW document \in Nat, NEW size \in Sizes
    PROVE  /\ Frame(document, size) \in Seq(Byte)
           /\ Len(Frame(document, size)) = Digits + size + 2
           /\ \A k \in 1..(Digits + size + 2) :
                 /\ Frame(document, size)[k].doc = document
                 /\ Frame(document, size)[k].at = k - Digits - 1
  BY FramingAssumption DEF Frame, Byte

(* XML is bytes. *)
LEMMA XmlHas ==
    ASSUME NEW document \in Nat, NEW size \in Sizes
    PROVE  Xml(document, size) \in Seq(Byte)
<1>1. size \in Nat
  BY FramingAssumption
<1>2. \A k \in 1..size : [doc |-> document, at |-> k] \in Byte
  BY <1>1 DEF Byte
<1> QED  BY <1>1, <1>2 DEF Xml

(* The XML of a frame. *)
LEMMA XmlOfFrame ==
    ASSUME NEW document \in Nat, NEW size \in Sizes
    PROVE  Stretch(Frame(document, size), Digits + 1, Digits + 1 + size) = Xml(document, size)
<1> DEFINE f == Frame(document, size)
           t == Stretch(f, Digits + 1, Digits + 1 + size)
           x == Xml(document, size)
<1>1. size \in Nat /\ size > 0 /\ Digits \in Nat
  BY FramingAssumption
<1>2. f \in Seq(Byte) /\ Len(f) = Digits + size + 2
  BY FrameHas
<1>3. \A i \in 1..size : f[Digits + 1 + i] = [doc |-> document, at |-> i]
  BY <1>1 DEF Frame
<1> HIDE DEF f
<1>4. Digits + 1 \in 0..Len(f) /\ Digits + 1 + size \in (Digits + 1)..Len(f)
  BY <1>1, <1>2
<1>5. t \in Seq(Byte) /\ Len(t) = size /\ \A i \in 1..size : t[i] = f[Digits + 1 + i]
  <2> DEFINE a == Digits + 1
             b == Digits + 1 + size
  <2>1. /\ Stretch(f, a, b) \in Seq(Byte) /\ Len(Stretch(f, a, b)) = b - a
        /\ \A i \in 1..(b - a) : Stretch(f, a, b)[i] = f[a + i]
    <3> HIDE DEF a, b
    <3> QED  BY <1>2, <1>4, StretchHas DEF a, b
  <2>2. b - a = size
    BY <1>1
  <2> HIDE DEF a, b
  <2> QED  BY <2>1, <2>2 DEF a, b
<1>6. x \in Seq(Byte) /\ Len(x) = size /\ \A i \in 1..size : x[i] = [doc |-> document, at |-> i]
  BY <1>1 DEF Xml, Byte
<1> HIDE DEF t, x
<1>7. \A i \in 1..Len(t) : t[i] = x[i]
  BY <1>3, <1>5, <1>6
<1>8. t = x
  BY <1>5, <1>6, <1>7, SameBytes
<1> QED  BY <1>8 DEF t, x, f
-----------------------------------------------------------------------------
(* The last document sent, while there is one. *)
LEMMA TheLast ==
    ASSUME IInv, Len(sent) > 0
    PROVE  /\ Len(sent) \in Nat /\ LastSize \in Sizes /\ LastSize \in Nat /\ LastSize > 0
           /\ Digits \in Nat /\ Digits > 0
           /\ LastFrame \in Seq(Byte)
           /\ Len(LastFrame) = Digits + LastSize + 2
           /\ \A k \in 1..(Digits + LastSize + 2) :
                 LastFrame[k].doc = Len(sent) /\ LastFrame[k].at = k - Digits - 1
<1>1. sent \in Seq(Sizes) /\ Len(sent) \in Nat /\ LastSize \in Sizes
  BY DEF IInv, TypeOK, LastSize
<1>2. LastSize \in Nat /\ LastSize > 0 /\ Digits \in Nat /\ Digits > 0
  BY <1>1, FramingAssumption
<1> QED  BY <1>1, <1>2, FrameHas DEF LastFrame

(* A document is sent only when all is quiet. *)
LEMMA SendsOne ==
    ASSUME FramesKeptTogether, IInv, OneByOne, NEW size \in Sizes, Send(size)
    PROVE  OneByOne'
<1>1. /\ open /\ Len(sent') = Len(sent) + 1 /\ sent' = Append(sent, size)
      /\ earlier + Len(handed) >= Len(sent)
      /\ wire' = wire \o Frame(Len(sent) + 1, size)
      /\ UNCHANGED <<first_packet, earlier, sock, open, handed, fault>>
  BY DEF Send, Caught, FramesKeptTogether, client, link, IInv, TypeOK
<1>2. Len(sent) \in Nat /\ earlier \in Nat /\ Len(handed) \in Nat
      /\ sent \in Seq(Sizes) /\ size \in Nat /\ Digits \in Nat
  BY FramingAssumption DEF IInv, TypeOK
<1>3. Quiet
  BY <1>1, <1>2 DEF OneByOne, Underway
<1>4. LastSize' = size /\ LastFrame' = Frame(Len(sent) + 1, size)
  BY <1>1, <1>2 DEF LastSize, LastFrame
<1> DEFINE f == Frame(Len(sent) + 1, size)
           N == Digits + size + 2
<1>5. f \in Seq(Byte) /\ Len(f) = N
  BY <1>2, FrameHas
<1>6. wire' = f /\ sock' = << >>
  <2> HIDE DEF f
  <2> QED  BY <1>1, <1>3, <1>5 DEF Quiet, f
<1>7. Stretch(f, 0, 0) = << >> /\ Stretch(f, 0, N) = f
  <2> HIDE DEF f
  <2>1. N \in Nat
    BY <1>2
  <2> HIDE DEF N
  <2> QED  BY <1>5, <2>1 DEF Stretch
<1>8. Underway(0, 0)'
  <2>1. earlier' + Len(handed') + 1 = Len(sent')
    BY <1>1, <1>2, <1>3 DEF Quiet
  <2>2. first_packet'
    BY <1>1, <1>3 DEF Quiet
  <2> HIDE DEF f
  <2>3. sock' = Stretch(f, 0, 0) /\ wire' = Stretch(f, 0, Digits + LastSize' + 2)
    BY <1>4, <1>6, <1>7
  <2>4. LastFrame' = f
    BY <1>4 DEF f
  <2> QED  BY <2>1, <2>2, <2>3, <2>4 DEF Underway
<1>9. 0 \in (0..(Digits + LastSize + 2))'
  BY <1>2, <1>4
<1>10. earlier' + Len(handed') <= Len(sent')
  BY <1>1, <1>2, <1>3 DEF Quiet
<1> QED  BY <1>1, <1>8, <1>9, <1>10 DEF OneByOne

(* What arrives ends within the XML, or is all of it. *)
LEMMA ArrivesInside ==
    ASSUME FramesKeptTogether, IInv, OneByOne, NEW n \in DOMAIN wire, Arrive(n)
    PROVE  OneByOne'
<1>1. /\ open /\ MayEnd(wire[n])
      /\ sock' = sock \o Stretch(wire, 0, n) /\ wire' = Stretch(wire, n, Len(wire))
      /\ UNCHANGED <<first_packet, expected_length, buffer, sent, earlier, open, handed, fault>>
  BY DEF Arrive, client, link, Stretch
<1>2. wire # << >> /\ wire \in Seq(Byte) /\ n \in 1..Len(wire)
  BY DEF IInv, TypeOK
<1>3. PICK a, r \in 0..(Digits + LastSize + 2) : Underway(a, r)
  BY <1>1, <1>2 DEF OneByOne, Quiet
<1>4. Len(sent) > 0 /\ earlier \in Nat /\ Len(handed) \in Nat
  BY <1>3 DEF IInv, TypeOK, Underway
<1> DEFINE f == LastFrame
           N == Digits + LastSize + 2
           b == a + n
<1>5. /\ LastSize \in Nat /\ LastSize > 0 /\ Digits \in Nat /\ Digits > 0 /\ N \in Nat
      /\ f \in Seq(Byte) /\ Len(f) = N
      /\ \A k \in 1..N : f[k].doc = Len(sent) /\ f[k].at = k - Digits - 1
  BY <1>4, TheLast
<1>6. a \in 0..N /\ r \in 0..a /\ wire = Stretch(f, a, N) /\ sock = Stretch(f, r, a)
  BY <1>3, <1>5 DEF Underway
<1> HIDE DEF f
<1>7. Len(wire) = N - a /\ wire[n] = f[a + n] /\ b \in a..N /\ b > a
  <2>1. N \in a..Len(f) /\ a \in 0..Len(f)
    BY <1>5, <1>6
  <2>2. Len(wire) = N - a /\ \A i \in 1..(N - a) : wire[i] = f[a + i]
    <3> HIDE DEF N
    <3> QED  BY <1>5, <1>6, <2>1, StretchHas
  <2> HIDE DEF N
  <2>3. n \in 1..(N - a)
    BY <1>2, <2>2
  <2> QED  BY <1>5, <1>6, <2>2, <2>3
<1>8. b \in (Digits + 2)..(Digits + LastSize) \/ b = N
  <2>1. f[b].doc = Len(sent) /\ f[b].at = b - Digits - 1
    <3>1. b \in 1..N
      BY <1>5, <1>6, <1>7
    <3> QED  BY <1>5, <3>1
  <2>2. sent[f[b].doc] = LastSize
    BY <2>1 DEF LastSize
  <2>3. \/ f[b].at \in 1..(LastSize - 1)
        \/ f[b].at = LastSize + 1
    BY <1>1, <1>7, <2>2 DEF MayEnd, FramesKeptTogether
  <2>4. b \in Nat
    BY <1>5, <1>6, <1>7
  <2> HIDE DEF b
  <2>5. CASE f[b].at = LastSize + 1
    BY <1>5, <2>1, <2>4, <2>5
  <2>6. CASE f[b].at \in 1..(LastSize - 1)
    <3>1. b - Digits - 1 >= 1 /\ b - Digits - 1 <= LastSize - 1
      BY <1>5, <2>1, <2>4, <2>6
    <3> QED  BY <1>5, <2>4, <3>1
  <2> QED  BY <2>3, <2>5, <2>6
<1>9. wire' = Stretch(f, b, N)
  <2>1. /\ a \in 0..Len(f) /\ N \in a..Len(f)
        /\ n \in 0..(N - a) /\ N - a \in n..(N - a)
    <3>1. n \in 1..(N - a) /\ N - a \in Nat
      BY <1>2, <1>5, <1>6, <1>7
    <3> HIDE DEF N
    <3> QED  BY <1>5, <1>6, <3>1
  <2>2. Stretch(Stretch(f, a, N), n, N - a) = Stretch(f, a + n, a + (N - a))
    <3> HIDE DEF N
    <3> QED  BY <1>5, <2>1, StretchOfStretch
  <2>3. a + (N - a) = N
    BY <1>5, <1>6
  <2> QED  BY <1>1, <1>6, <1>7, <2>2, <2>3
<1>10. sock' = Stretch(f, r, b)
  <2>1. /\ a \in 0..Len(f) /\ N \in a..Len(f)
        /\ 0 \in 0..(N - a) /\ n \in 0..(N - a)
    <3>1. n \in 1..(N - a) /\ N - a \in Nat
      BY <1>2, <1>5, <1>6, <1>7
    <3> HIDE DEF N
    <3> QED  BY <1>5, <1>6, <3>1
  <2>2. Stretch(Stretch(f, a, N), 0, n) = Stretch(f, a + 0, a + n)
    <3> HIDE DEF N
    <3> QED  BY <1>5, <2>1, StretchOfStretch
  <2>3. r \in 0..Len(f) /\ a \in r..Len(f) /\ b \in a..Len(f) /\ a + 0 = a
    BY <1>5, <1>6, <1>7
  <2>4. Stretch(f, r, a) \o Stretch(f, a, b) = Stretch(f, r, b)
    <3> HIDE DEF b
    <3> QED  BY <1>5, <2>3, StretchesJoin
  <2> QED  BY <1>1, <1>6, <2>2, <2>3, <2>4
<1>11. Underway(b, r)'
  <2>1. LastSize' = LastSize /\ LastFrame' = f
    BY <1>1 DEF LastSize, LastFrame, f
  <2>2. r <= b /\ b \in {0} \cup ((Digits + 2)..(Digits + LastSize)) \cup {N}
    <3>1. r <= b
      BY <1>5, <1>6, <1>7
    <3> HIDE DEF b, N
    <3> QED  BY <1>8, <3>1
  <2> HIDE DEF b
  <2> QED  BY <1>1, <1>3, <1>9, <1>10, <2>1, <2>2 DEF Underway, f
<1>12. b \in 0..N /\ r \in 0..N
  BY <1>5, <1>6, <1>7
<1>13. N' = N
  BY <1>1 DEF LastSize
<1> HIDE DEF b
<1>14. earlier' + Len(handed') <= Len(sent')
  BY <1>1 DEF OneByOne
<1> QED  BY <1>1, <1>11, <1>12, <1>13, <1>14 DEF OneByOne


(* What one read takes, and what it leaves. *)
LEMMA ReadsStretch ==
    ASSUME IInv, Len(sent) > 0, sock # << >>,
           NEW a \in 0..(Digits + LastSize + 2), NEW r \in 0..(Digits + LastSize + 2),
           Underway(a, r), NEW c, c = r + ChunkLength
    PROVE  /\ ChunkLength \in 1..BufSize
           /\ c \in (r + 1)..a
           /\ c = a \/ c = r + BufSize
           /\ Chunk = Stretch(LastFrame, r, c) /\ Unread = Stretch(LastFrame, c, a)
<1> DEFINE f == LastFrame
           N == Digits + LastSize + 2
           n == ChunkLength
<1>1. N \in Nat /\ f \in Seq(Byte) /\ Len(f) = N /\ BufSize \in Nat /\ BufSize > 0
  BY TheLast, FramingAssumption
<1>2. a \in 0..N /\ r \in 0..a /\ sock = Stretch(f, r, a)
  BY DEF Underway
<1> HIDE DEF f, N
<1>3. r \in 0..Len(f) /\ a \in r..Len(f)
  BY <1>1, <1>2
<1>4. Len(sock) = a - r /\ Len(sock) > 0
  <2>1. Len(sock) = a - r
    BY <1>1, <1>2, <1>3, StretchHas
  <2>2. sock \in Seq(Byte)
    BY DEF IInv, TypeOK
  <2> QED  BY <2>1, <2>2
<1>5. n \in 1..(a - r) /\ n <= BufSize /\ (n = a - r \/ n = BufSize)
  BY <1>1, <1>2, <1>4 DEF ChunkLength
<1>6. Chunk = Stretch(sock, 0, n) /\ Unread = Stretch(sock, n, a - r)
  BY <1>4 DEF Chunk, Unread, Stretch
<1> HIDE DEF n
<1>7. 0 \in 0..(a - r) /\ n \in 0..(a - r) /\ a - r \in n..(a - r)
  BY <1>1, <1>2, <1>5
<1>8. Stretch(sock, 0, n) = Stretch(f, r + 0, r + n)
  BY <1>1, <1>2, <1>3, <1>7, StretchOfStretch
<1>9. Stretch(sock, n, a - r) = Stretch(f, r + n, r + (a - r))
  BY <1>1, <1>2, <1>3, <1>7, StretchOfStretch
<1>10. r + 0 = r /\ r + n = c /\ r + (a - r) = a
  BY <1>2, <1>1 DEF n
<1>11. n \in 1..BufSize
  BY <1>1, <1>2, <1>5
<1>12. c \in (r + 1)..a /\ (c = a \/ c = r + BufSize)
  BY <1>1, <1>2, <1>5, <1>10
<1> QED  BY <1>6, <1>8, <1>9, <1>10, <1>11, <1>12 DEF f, n

(* A document is handed over when it is complete, and only then. *)
LEMMA HandsOverWhole ==
    ASSUME IInv, OneByOne, open, open' = open, fault' = fault, UNCHANGED stream,
           NEW a \in 0..(Digits + LastSize + 2), NEW r \in 0..(Digits + LastSize + 2),
           Underway(a, r), Len(sent) > 0,
           NEW c \in (Digits + 1)..a, r < c, c # Digits + 1 + LastSize,
           sock' = Stretch(LastFrame, c, a),
           Received(Stretch(LastFrame, Digits + 1, c), LastSize)
    PROVE  /\ OneByOne'
           /\ \/ handed' = handed
              \/ handed' = Append(handed, Xml(Len(sent), LastSize))
<1> DEFINE f == LastFrame
           N == Digits + LastSize + 2
           content == Stretch(f, Digits + 1, c)
<1>1. /\ LastSize \in Nat /\ LastSize > 0 /\ Digits \in Nat /\ Digits > 0 /\ N \in Nat
      /\ f \in Seq(Byte) /\ Len(f) = N
  BY TheLast
<1>2. a \in 0..N /\ c \in (Digits + 1)..N
  BY <1>1
<1>3. content \in Seq(Byte) /\ Len(content) = c - (Digits + 1)
  <2>1. Digits + 1 \in 0..Len(f) /\ c \in (Digits + 1)..Len(f)
    BY <1>1, <1>2
  <2> HIDE DEF f
  <2> QED  BY <1>1, <2>1, StretchHas
<1>4. /\ sent' = sent /\ earlier' = earlier /\ wire' = wire
      /\ LastSize' = LastSize /\ LastFrame' = f /\ N' = N
  BY DEF stream, LastSize, LastFrame
<1>5. /\ earlier \in Nat /\ Len(handed) \in Nat /\ Len(sent) \in Nat
      /\ earlier + Len(handed) + 1 = Len(sent)
      /\ handed \in Seq(Seq(Byte))
  BY DEF IInv, TypeOK, Underway
<1>6. CASE Len(content) < LastSize
  <2>1. /\ buffer' = content /\ expected_length' = LastSize
        /\ first_packet' = FALSE /\ handed' = handed
    BY <1>6 DEF Received, Kept
  <2>2. c \in (Digits + 1)..(Digits + LastSize) /\ c # 0 /\ c <= a
    BY <1>1, <1>2, <1>3, <1>6
  <2> HIDE DEF content, f
  <2>3. Underway(a, c)'
    BY <1>4, <1>5, <2>1, <2>2 DEF Underway, content, f
  <2>4. c \in (0..(Digits + LastSize + 2))' /\ a \in (0..(Digits + LastSize + 2))'
    BY <1>1, <1>2, <1>4
  <2>5. earlier' + Len(handed') <= Len(sent') /\ fault' = "none"
    BY <1>4, <2>1 DEF OneByOne
  <2> QED  BY <2>1, <2>3, <2>4, <2>5 DEF OneByOne
<1>7. CASE ~ (Len(content) < LastSize)
  <2>1. /\ first_packet' = TRUE
        /\ handed' = Append(handed, SubSeq(content, 1, LastSize))
    BY <1>7 DEF Received, Taken
  <2>2. c = N /\ a = N
    <3>1. c - (Digits + 1) >= LastSize
      BY <1>1, <1>2, <1>3, <1>7
    <3> QED  BY <1>1, <1>2, <3>1
  <2>3. Stretch(f, N, N) = << >>
    <3>1. N \in 0..Len(f) /\ N \in N..Len(f)
      BY <1>1
    <3>2. Stretch(f, N, N) \in Seq(Byte) /\ Len(Stretch(f, N, N)) = N - N
      <4> HIDE DEF f, N
      <4> QED  BY <1>1, <3>1, StretchHas
    <3>3. N - N = 0
      BY <1>1
    <3> HIDE DEF f, N
    <3> QED  BY <3>2, <3>3
  <2>4. sock' = << >> /\ wire' = << >>
    BY <1>4, <2>2, <2>3 DEF Underway
  <2>5. SubSeq(content, 1, LastSize) = Xml(Len(sent), LastSize)
    <3>1. /\ Digits + 1 \in 0..Len(f) /\ c \in (Digits + 1)..Len(f)
          /\ 0 \in 0..(c - (Digits + 1)) /\ LastSize \in 0..(c - (Digits + 1))
      BY <1>1, <1>2, <1>3, <1>7
    <3>2. Stretch(content, 0, LastSize) = Stretch(f, (Digits + 1) + 0, (Digits + 1) + LastSize)
      <4> HIDE DEF f
      <4> QED  BY <1>1, <3>1, StretchOfStretch
    <3>3. (Digits + 1) + 0 = Digits + 1 /\ (Digits + 1) + LastSize = Digits + 1 + LastSize
      BY <1>1
    <3>4. Stretch(f, Digits + 1, Digits + 1 + LastSize) = Xml(Len(sent), LastSize)
      BY TheLast, XmlOfFrame DEF LastFrame
    <3> HIDE DEF content, f
    <3>5. Stretch(content, 0, LastSize) = SubSeq(content, 1, LastSize)
      BY DEF Stretch
    <3> QED  BY <3>2, <3>3, <3>4, <3>5 DEF f
  <2>6. /\ handed' = Append(handed, Xml(Len(sent), LastSize))
        /\ Len(handed') = Len(handed) + 1
    <3>1. Xml(Len(sent), LastSize) \in Seq(Byte)
      BY <1>5, <1>1 DEF Xml, Byte
    <3> QED  BY <1>5, <2>1, <2>5, <3>1
  <2>7. Quiet'
    BY <1>4, <1>5, <2>1, <2>4, <2>6 DEF Quiet
  <2>8. earlier' + Len(handed') <= Len(sent') /\ fault' = "none"
    BY <1>4, <1>5, <2>6 DEF OneByOne
  <2> QED  BY <2>6, <2>7, <2>8 DEF OneByOne
<1> QED  BY <1>6, <1>7


(* There is something to read only while a document is under way. *)
LEMMA SomethingUnderway ==
    ASSUME IInv, OneByOne, open, sock # << >>
    PROVE  /\ Len(sent) > 0
           /\ \E a, r \in 0..(Digits + LastSize + 2) : Underway(a, r)
<1>1. PICK a, r \in 0..(Digits + LastSize + 2) : Underway(a, r)
  BY DEF OneByOne, Quiet
<1>2. Len(sent) > 0
  BY <1>1 DEF IInv, TypeOK, Underway
<1> QED  BY <1>1, <1>2

(* The first read takes the whole header, and does not end between the     *)
(* document and its NUL.                                                   *)
LEMMA FirstRead ==
    ASSUME FramesKeptTogether, IInv, OneByOne, Reads, first_packet,
           NEW a \in 0..(Digits + LastSize + 2), NEW r \in 0..(Digits + LastSize + 2),
           Underway(a, r), Len(sent) > 0
    PROVE  \E c \in (Digits + 1)..a :
              /\ r = 0 /\ c # Digits + 1 + LastSize
              /\ Chunk = Stretch(LastFrame, 0, c) /\ Unread = Stretch(LastFrame, c, a)
              /\ Chunk \in Seq(Byte) /\ Len(Chunk) = c
              /\ \A k \in 1..c : Chunk[k] = LastFrame[k]
<1> DEFINE f == LastFrame
           N == Digits + LastSize + 2
           c == r + ChunkLength
<1>1. /\ LastSize \in Nat /\ LastSize > 0 /\ Digits \in Nat /\ Digits > 0 /\ N \in Nat
      /\ f \in Seq(Byte) /\ Len(f) = N /\ BufSize \in Nat /\ BufSize > 0
  BY TheLast, FramingAssumption
<1>2. r = 0 /\ sock # << >>
  BY DEF Underway, Reads
<1>3. /\ ChunkLength \in 1..BufSize /\ c \in (r + 1)..a /\ (c = a \/ c = r + BufSize)
      /\ Chunk = Stretch(f, r, c) /\ Unread = Stretch(f, c, a)
  BY <1>2, ReadsStretch
<1>4. a \in (Digits + 2)..(Digits + LastSize) \/ a = N
  <2>1. a > 0
    BY <1>2, <1>3
  <2>2. a \in {0} \cup ((Digits + 2)..(Digits + LastSize)) \cup {N}
    BY DEF Underway
  <2> HIDE DEF N
  <2> QED  BY <2>1, <2>2
<1>5. LastSize < BufSize /\ LastSize # BufSize - Digits - 1 /\ Digits < BufSize
  <2>1. LastSize \in Sizes
    BY TheLast
  <2> QED  BY <2>1 DEF FramesKeptTogether
<1>6. c \in (Digits + 1)..a /\ c # Digits + 1 + LastSize
  <2>1. CASE c = a
    BY <1>1, <1>2, <1>3, <1>4, <2>1
  <2>2. CASE c = r + BufSize
    BY <1>1, <1>2, <1>3, <1>5, <2>2
  <2> QED  BY <1>3, <2>1, <2>2
<1> HIDE DEF c, f
<1>7. Chunk = Stretch(f, 0, c) /\ c \in 0..Len(f) /\ 0 \in 0..Len(f)
  BY <1>1, <1>2, <1>3, <1>6
<1>8. Chunk \in Seq(Byte) /\ Len(Chunk) = c - 0 /\ \A k \in 1..(c - 0) : Chunk[k] = f[0 + k]
  BY <1>1, <1>7, StretchHas
<1>9. Len(Chunk) = c /\ \A k \in 1..c : Chunk[k] = f[k]
  <2>1. c \in Nat /\ c - 0 = c
    BY <1>1, <1>6
  <2>2. Len(Chunk) = c
    BY <1>8, <2>1
  <2>3. ASSUME NEW k \in 1..c PROVE Chunk[k] = f[k]
    <3>1. k \in 1..(c - 0) /\ 0 + k = k
      BY <2>1
    <3> QED  BY <1>8, <3>1
  <2> QED  BY <2>2, <2>3
<1> QED  BY <1>2, <1>3, <1>6, <1>7, <1>8, <1>9 DEF f

(* So the header ends with the first NUL, and says how long the XML is. *)
LEMMA HeaderRead ==
    ASSUME IInv, Len(sent) > 0, NEW c \in (Digits + 1)..(Digits + LastSize + 2),
           Chunk \in Seq(Byte), Len(Chunk) = c, \A k \in 1..c : Chunk[k] = LastFrame[k]
    PROVE  /\ HasNul(Chunk)
           /\ \A n \in 0..(c - 1) : IsStrlen(Chunk, n) => n = Digits
           /\ Lengths(Chunk) = {LastSize}
<1> DEFINE f == LastFrame
<1>1. /\ LastSize \in Nat /\ LastSize > 0 /\ Digits \in Nat /\ Digits > 0
      /\ \A k \in 1..(Digits + LastSize + 2) : f[k].doc = Len(sent) /\ f[k].at = k - Digits - 1
  BY TheLast
<1>2. \A k \in 1..c : Chunk[k].doc = Len(sent) /\ Chunk[k].at = k - Digits - 1
  BY <1>1
<1>3. \A k \in 1..c : IsNul(Chunk[k]) <=> k = Digits + 1 \/ k = Digits + LastSize + 2
  <2> TAKE k \in 1..c
  <2>1. sent[Chunk[k].doc] = LastSize
    BY <1>2 DEF LastSize
  <2>2. IsNul(Chunk[k]) <=> k - Digits - 1 = 0 \/ k - Digits - 1 = LastSize + 1
    BY <1>2, <2>1 DEF IsNul
  <2>3. k \in Nat /\ Digits \in Nat /\ LastSize \in Nat
    BY <1>1
  <2>4. k - Digits - 1 = 0 <=> k = Digits + 1
    BY <2>3
  <2>5. k - Digits - 1 = LastSize + 1 <=> k = Digits + LastSize + 2
    BY <2>3
  <2> QED  BY <2>2, <2>4, <2>5
<1>4. HasNul(Chunk)
  <2>1. Digits + 1 \in 1..c /\ Digits + 1 \in DOMAIN Chunk
    BY <1>1
  <2> QED  BY <1>3, <2>1 DEF HasNul
<1>5. ASSUME NEW n \in 0..(c - 1), IsStrlen(Chunk, n) PROVE n = Digits
  <2>1. n + 1 \in 1..c /\ (\A k \in 1..n : k \in 1..c)
    BY <1>1
  <2>2. n + 1 = Digits + 1 \/ n + 1 = Digits + LastSize + 2
    BY <1>3, <1>5, <2>1 DEF IsStrlen
  <2>3. \A k \in 1..n : k # Digits + 1
    BY <1>3, <1>5, <2>1 DEF IsStrlen
  <2>4. CASE n + 1 = Digits + LastSize + 2
    <3>1. Digits + 1 \in 1..n
      BY <1>1, <2>4
    <3> QED  BY <2>3, <3>1
  <2> QED  BY <1>1, <2>2, <2>4
<1>6. Lengths(Chunk) = {LastSize}
  <2>1. 1 \in 1..c /\ 1 - Digits - 1 = -Digits
    BY <1>1
  <2>2. IsFirstDigit(Chunk[1])
    BY <1>2, <2>1 DEF IsFirstDigit
  <2>3. sent[Chunk[1].doc] = LastSize
    BY <1>2, <2>1 DEF LastSize
  <2> QED  BY <2>2, <2>3 DEF Lengths
<1> QED  BY <1>4, <1>5, <1>6

(* A document begins. *)
LEMMA ReadsFirst ==
    ASSUME FramesKeptTogether, IInv, OneByOne, ReadFirst
    PROVE  /\ OneByOne'
           /\ \/ handed' = handed
              \/ handed' = Append(handed, Xml(Len(sent), LastSize))
<1>1. /\ open /\ sock # << >> /\ first_packet /\ Reads /\ sock' = Unread /\ open' = open
      /\ UNCHANGED stream /\ fault' = fault
  BY DEF ReadFirst, Reads, link
<1>2. Len(sent) > 0
  BY <1>1, SomethingUnderway
<1>3. PICK a, r \in 0..(Digits + LastSize + 2) : Underway(a, r)
  BY <1>1, SomethingUnderway
<1>4. PICK c \in (Digits + 1)..a :
          /\ r = 0 /\ c # Digits + 1 + LastSize
          /\ Chunk = Stretch(LastFrame, 0, c) /\ Unread = Stretch(LastFrame, c, a)
          /\ Chunk \in Seq(Byte) /\ Len(Chunk) = c
          /\ \A k \in 1..c : Chunk[k] = LastFrame[k]
  BY <1>1, <1>2, <1>3, FirstRead
<1>5. Digits \in Nat /\ LastSize \in Nat /\ LastFrame \in Seq(Byte)
      /\ Len(LastFrame) = Digits + LastSize + 2
  BY <1>2, TheLast
<1>6. c \in (Digits + 1)..(Digits + LastSize + 2)
  BY <1>4, <1>5
<1>7. PICK null_starts \in 0..(Len(Chunk) - 1), length \in Lengths(Chunk) :
          /\ IsStrlen(Chunk, null_starts)
          /\ Received(Payload(Chunk, null_starts), length)
  BY DEF ReadFirst
<1>8. null_starts = Digits /\ length = LastSize
  BY <1>2, <1>4, <1>6, <1>7, HeaderRead
<1>9. Payload(Chunk, Digits) = Stretch(Chunk, Digits + 1, c)
  <2>1. (Digits + 1) + 1 = Digits + 2
    BY <1>5
  <2> QED  BY <1>4, <2>1 DEF Payload, Stretch
<1>10. Stretch(Chunk, Digits + 1, c) = Stretch(LastFrame, Digits + 1, c)
  <2>1. /\ 0 \in 0..Len(LastFrame) /\ c \in 0..Len(LastFrame)
        /\ Digits + 1 \in 0..(c - 0) /\ c \in (Digits + 1)..(c - 0)
    BY <1>5, <1>6
  <2>2. Stretch(Stretch(LastFrame, 0, c), Digits + 1, c) = Stretch(LastFrame, 0 + (Digits + 1), 0 + c)
    BY <1>5, <2>1, StretchOfStretch
  <2>3. 0 + (Digits + 1) = Digits + 1 /\ 0 + c = c
    BY <1>5, <1>6
  <2> QED  BY <1>4, <2>2, <2>3
<1>11. Received(Stretch(LastFrame, Digits + 1, c), LastSize)
  BY <1>7, <1>8, <1>9, <1>10
<1>12. r < c /\ sock' = Stretch(LastFrame, c, a)
  BY <1>1, <1>4, <1>5, <1>6
<1> QED  BY <1>1, <1>2, <1>3, <1>4, <1>11, <1>12, HandsOverWhole

(* A document goes on: what remains of it fits the buffer, and is read at  *)
(* once.                                                                   *)
LEMMA NextRead ==
    ASSUME FramesKeptTogether, IInv, OneByOne, Reads, ~first_packet,
           NEW a \in 0..(Digits + LastSize + 2), NEW r \in 0..(Digits + LastSize + 2),
           Underway(a, r), Len(sent) > 0
    PROVE  /\ a \in (Digits + 1)..a /\ r < a /\ a # Digits + 1 + LastSize
           /\ Unread = Stretch(LastFrame, a, a)
           /\ Len(buffer) + Len(Chunk) <= BufSize
           /\ buffer \o Chunk = Stretch(LastFrame, Digits + 1, a)
<1> DEFINE f == LastFrame
           N == Digits + LastSize + 2
           c == r + ChunkLength
<1>1. /\ LastSize \in Nat /\ LastSize > 0 /\ Digits \in Nat /\ Digits > 0 /\ N \in Nat
      /\ f \in Seq(Byte) /\ Len(f) = N /\ BufSize \in Nat /\ BufSize > 0
  BY TheLast, FramingAssumption
<1>2. r # 0 /\ sock # << >>
  BY DEF Underway, Reads
<1>3. r \in (Digits + 1)..(Digits + LastSize) /\ buffer = Stretch(f, Digits + 1, r)
  BY <1>2 DEF Underway
<1>4. /\ ChunkLength \in 1..BufSize /\ c \in (r + 1)..a /\ (c = a \/ c = r + BufSize)
      /\ Chunk = Stretch(f, r, c) /\ Unread = Stretch(f, c, a)
  BY <1>2, ReadsStretch
<1>5. LastSize < BufSize
  <2>1. LastSize \in Sizes
    BY TheLast
  <2> QED  BY <2>1 DEF FramesKeptTogether
<1>6. c = a /\ r < a
  BY <1>1, <1>3, <1>4, <1>5
<1>7. a \in (Digits + 2)..(Digits + LastSize) \/ a = N
  <2>1. a > 0
    BY <1>1, <1>3, <1>6
  <2>2. a \in {0} \cup ((Digits + 2)..(Digits + LastSize)) \cup {N}
    BY DEF Underway
  <2> HIDE DEF N
  <2> QED  BY <2>1, <2>2
<1>8. a \in (Digits + 1)..a /\ a # Digits + 1 + LastSize
  BY <1>1, <1>7
<1> HIDE DEF c, f
<1>9. Digits + 1 \in 0..Len(f) /\ r \in (Digits + 1)..Len(f) /\ a \in r..Len(f)
      /\ r \in 0..Len(f)
  BY <1>1, <1>3, <1>6
<1>10. Len(buffer) = r - (Digits + 1)
  BY <1>1, <1>3, <1>9, StretchHas
<1>11. Len(Chunk) = a - r
  BY <1>1, <1>4, <1>6, <1>9, StretchHas
<1>12. Len(buffer) + Len(Chunk) <= BufSize
  BY <1>1, <1>3, <1>5, <1>10, <1>11
<1>13. buffer \o Chunk = Stretch(f, Digits + 1, a)
  BY <1>1, <1>3, <1>4, <1>6, <1>9, StretchesJoin
<1> QED  BY <1>4, <1>6, <1>8, <1>12, <1>13 DEF f

(* Reading on. *)
LEMMA ReadsMore ==
    ASSUME FramesKeptTogether, IInv, OneByOne, ReadMore
    PROVE  /\ OneByOne'
           /\ \/ handed' = handed
              \/ handed' = Append(handed, Xml(Len(sent), LastSize))
<1>1. /\ open /\ sock # << >> /\ ~first_packet /\ Reads /\ sock' = Unread /\ open' = open
      /\ UNCHANGED stream /\ fault' = fault
      /\ Received(buffer \o Chunk, expected_length)
  BY DEF ReadMore, Reads, link
<1>2. Len(sent) > 0
  BY <1>1, SomethingUnderway
<1>3. PICK a, r \in 0..(Digits + LastSize + 2) : Underway(a, r)
  BY <1>1, SomethingUnderway
<1>4. /\ a \in (Digits + 1)..a /\ r < a /\ a # Digits + 1 + LastSize
      /\ Unread = Stretch(LastFrame, a, a)
      /\ buffer \o Chunk = Stretch(LastFrame, Digits + 1, a)
  BY <1>1, <1>2, <1>3, NextRead
<1>5. expected_length = LastSize
  BY <1>1, <1>3 DEF Underway
<1> QED  BY <1>1, <1>2, <1>3, <1>4, <1>5, HandsOverWhole

(* Nothing is written where it must not be. *)
LEMMA ReadsInside ==
    ASSUME FramesKeptTogether, IInv, OneByOne
    PROVE  ~ ReadFirst_underflow /\ ~ ReadMore_overrun
<1>1. ASSUME Reads
      PROVE  /\ open /\ sock # << >> /\ Len(sent) > 0
             /\ \E a, r \in 0..(Digits + LastSize + 2) : Underway(a, r)
  BY <1>1, SomethingUnderway DEF Reads
<1>2. ASSUME ReadFirst_underflow PROVE FALSE
  <2>1. Reads /\ first_packet /\ ~HasNul(Chunk)
    BY <1>2 DEF ReadFirst_underflow
  <2>2. PICK a, r \in 0..(Digits + LastSize + 2) : Underway(a, r)
    BY <1>1, <2>1
  <2>3. PICK c \in (Digits + 1)..a :
            /\ Chunk \in Seq(Byte) /\ Len(Chunk) = c
            /\ \A k \in 1..c : Chunk[k] = LastFrame[k]
    BY <1>1, <2>1, <2>2, FirstRead
  <2>4. Digits \in Nat /\ LastSize \in Nat
    BY <1>1, <2>1, TheLast
  <2>5. c \in (Digits + 1)..(Digits + LastSize + 2)
    BY <2>3, <2>4
  <2> QED  BY <1>1, <2>1, <2>3, <2>5, HeaderRead
<1>3. ASSUME ReadMore_overrun PROVE FALSE
  <2>1. Reads /\ ~first_packet /\ Len(buffer) + Len(Chunk) > BufSize
    BY <1>3 DEF ReadMore_overrun
  <2>2. PICK a, r \in 0..(Digits + LastSize + 2) : Underway(a, r)
    BY <1>1, <2>1
  <2>3. Len(buffer) + Len(Chunk) <= BufSize
    BY <1>1, <2>1, <2>2, NextRead
  <2>4. Len(buffer) \in Nat /\ Len(Chunk) \in Nat /\ BufSize \in Nat
    BY <2>1, Halves, FramingAssumption DEF IInv, TypeOK, Reads
  <2> QED  BY <2>1, <2>3, <2>4
<1> QED  BY <1>2, <1>3
-----------------------------------------------------------------------------
Documents == [document \in DOMAIN sent |-> Xml(document, sent[document])]

(* The documents of the channel, and the one sent last. *)
LEMMA DocumentsSent ==
    ASSUME IInv
    PROVE  /\ Len(Documents) = Len(sent) /\ Len(sent) \in Nat
           /\ Documents \in Seq(Seq(Byte))
           /\ \A i \in 1..Len(sent) : Documents[i] = Xml(i, sent[i])
<1>1. sent \in Seq(Sizes) /\ Len(sent) \in Nat /\ DOMAIN sent = 1..Len(sent)
  BY DEF IInv, TypeOK
<1>2. \A i \in 1..Len(sent) : Xml(i, sent[i]) \in Seq(Byte)
  <2> TAKE i \in 1..Len(sent)
  <2>1. sent[i] \in Sizes /\ i \in Nat
    BY <1>1
  <2> QED  BY <2>1, XmlHas
<1> QED  BY <1>1, <1>2 DEF Documents

(* Sending adds a document to the channel. *)
LEMMA SendingSends ==
    ASSUME IInv, NEW size \in Sizes, Send(size)
    PROVE  /\ Len(Documents') = Len(Documents) + 1
           /\ SubSeq(Documents', 1, Len(Documents)) = Documents
           /\ UNCHANGED <<earlier, handed>>
<1> DEFINE n == Len(sent)
           more == Documents'
<1>1. /\ sent' = Append(sent, size) /\ UNCHANGED <<earlier, handed>>
      /\ sent \in Seq(Sizes) /\ n \in Nat
  BY DEF Send, IInv, TypeOK
<1>2. /\ sent' \in Seq(Sizes) /\ Len(sent') = n + 1 /\ DOMAIN sent' = 1..(n + 1)
      /\ \A i \in 1..n : sent'[i] = sent[i]
  BY <1>1
<1>3. /\ Len(Documents) = n /\ Documents \in Seq(Seq(Byte))
      /\ \A i \in 1..n : Documents[i] = Xml(i, sent[i])
  BY DocumentsSent
<1>4. \A i \in 1..(n + 1) : Xml(i, sent'[i]) \in Seq(Byte)
  <2> TAKE i \in 1..(n + 1)
  <2>1. sent'[i] \in Sizes /\ i \in Nat
    BY <1>1, <1>2
  <2> QED  BY <2>1, XmlHas
<1>5. more = [document \in 1..(n + 1) |-> Xml(document, sent'[document])]
  BY <1>2 DEF Documents
<1> HIDE DEF more, n
<1>6. /\ more \in Seq(Seq(Byte)) /\ Len(more) = n + 1
      /\ \A i \in 1..(n + 1) : more[i] = Xml(i, sent'[i])
  <2>1. n + 1 \in Nat
    BY <1>1
  <2>2. \A i \in 1..(n + 1) : more[i] = Xml(i, sent'[i])
    BY <1>5, Zenon
  <2>3. more \in [1..(n + 1) -> Seq(Byte)]
    BY <1>4, <1>5
  <2> QED  BY <2>1, <2>2, <2>3
<1>7. \A i \in 1..n : more[i] = Documents[i]
  BY <1>1, <1>2, <1>3, <1>6
<1>8. SubSeq(more, 1, n) = Documents
  BY <1>1, <1>3, <1>6, <1>7
<1> QED  BY <1>1, <1>3, <1>6, <1>8 DEF more

(* Handing over what was sent last is the channel's step. *)
LEMMA HandingOver ==
    ASSUME IInv, NEW a, NEW r, Underway(a, r), UNCHANGED stream,
           handed' = handed \/ handed' = Append(handed, Xml(Len(sent), LastSize))
    PROVE  Channel!HandOver \/ UNCHANGED <<Documents, earlier, handed>>
<1>1. UNCHANGED <<Documents, earlier>>
  BY DEF stream, Documents
<1>2. earlier + Len(handed) + 1 = Len(sent) /\ earlier \in Nat /\ Len(handed) \in Nat
  BY DEF Underway, IInv, TypeOK
<1>3. CASE handed' = Append(handed, Xml(Len(sent), LastSize))
  <2>1. Len(Documents) = Len(sent) /\ Documents[Len(sent)] = Xml(Len(sent), LastSize)
    BY <1>2, DocumentsSent DEF LastSize
  <2>2. earlier + Len(handed) < Len(Documents)
    BY <1>2, <2>1
  <2>3. handed' = Append(handed, Documents[earlier + Len(handed) + 1])
    BY <1>2, <1>3, <2>1
  <2> QED  BY <1>1, <2>2, <2>3 DEF Channel!HandOver, Documents
<1> QED  BY <1>1, <1>3

(* What the invariant looks at does not change. *)
LEMMA StaysWhole ==
    ASSUME OneByOne, UNCHANGED <<client, stream, sock, open, handed, fault>>
    PROVE  OneByOne'
  BY DEF OneByOne, Quiet, Underway, LastSize, LastFrame, client, stream

(* Every step keeps documents whole, and is a step of the channel or none. *)
LEMMA StepsDeliver ==
    ASSUME FramesKeptTogether, IInv, OneByOne, [Next]_vars
    PROVE  OneByOne' /\ (Channel!Next \/ UNCHANGED <<Documents, earlier, handed>>)
<1>1. ASSUME NEW size \in Sizes, Send(size)
      PROVE  OneByOne' /\ Channel!Send
  <2>1. OneByOne'
    BY <1>1, SendsOne
  <2> QED  BY <1>1, <2>1, SendingSends DEF Channel!Send, Documents
<1>2. ASSUME NEW n \in DOMAIN wire, Arrive(n)
      PROVE  OneByOne' /\ UNCHANGED <<Documents, earlier, handed>>
  <2>1. UNCHANGED <<Documents, earlier, handed>>
    BY <1>2 DEF Arrive, Documents
  <2> QED  BY <1>2, <2>1, ArrivesInside
<1>3. ASSUME Read
      PROVE  OneByOne' /\ (Channel!HandOver \/ UNCHANGED <<Documents, earlier, handed>>)
  <2>1. ReadFirst \/ ReadMore
    BY <1>3, ReadsInside DEF Read
  <2>2. /\ OneByOne'
        /\ handed' = handed \/ handed' = Append(handed, Xml(Len(sent), LastSize))
    BY <2>1, ReadsFirst, ReadsMore
  <2>3. open /\ sock # << >> /\ UNCHANGED stream
    BY <2>1 DEF ReadFirst, ReadMore, Reads
  <2>4. PICK a, r \in 0..(Digits + LastSize + 2) : Underway(a, r)
    BY <2>3, SomethingUnderway
  <2> QED  BY <2>2, <2>3, <2>4, HandingOver
<1>4. ASSUME Close
      PROVE  OneByOne' /\ UNCHANGED <<Documents, earlier, handed>>
  BY <1>4 DEF Close, OneByOne, Documents
<1>5. ASSUME async_accept
      PROVE  OneByOne' /\ Channel!Reconnect
  <2>1. /\ earlier' = Len(sent) /\ handed' = << >> /\ sent' = sent /\ fault' = fault
        /\ first_packet' = TRUE /\ sock' = sock /\ wire' = wire /\ ~open
    BY <1>5 DEF async_accept
  <2>2. sock = << >> /\ wire = << >> /\ Len(sent) \in Nat
    BY <2>1 DEF IInv, SentOnThisConnection, TypeOK
  <2>3. Len(handed') = 0
    BY <2>1
  <2>4. Quiet' /\ earlier' + Len(handed') <= Len(sent')
    BY <2>1, <2>2, <2>3 DEF Quiet
  <2>5. Len(Documents) = Len(sent) /\ Documents' = Documents
    BY <2>1, DocumentsSent DEF Documents
  <2> QED  BY <2>1, <2>4, <2>5 DEF OneByOne, Channel!Reconnect, Documents
<1>6. ASSUME UNCHANGED vars
      PROVE  OneByOne' /\ UNCHANGED <<Documents, earlier, handed>>
  <2>1. UNCHANGED <<client, stream, sock, open, handed, fault>>
    BY <1>6 DEF vars, link
  <2>2. UNCHANGED <<Documents, earlier, handed>>
    BY <2>1 DEF stream, Documents
  <2> QED  BY <2>1, <2>2, StaysWhole
<1> QED  BY <1>1, <1>2, <1>3, <1>4, <1>5, <1>6 DEF Next, Delivers, Channel!Next

(* When frames are cut only within their XML, documents come one at a time *)
(* and fit, the client reads without a fault, for all sizes of documents   *)
(* and buffers: no length underflows at 1256, no buffer overflows at 1266. *)
THEOREM ReadsWithoutFault ==
  ASSUME FramesKeptTogether
  PROVE  Spec => [](fault = "none")
<1>1. Init => OneByOne
  BY DEF Init, OneByOne
<1>2. IInv /\ OneByOne /\ [Next]_vars => OneByOne'
  BY StepsDeliver
<1>3. OneByOne => fault = "none"
  BY DEF OneByOne
<1> QED  BY <1>1, <1>2, <1>3, Invariance, PTL DEF Spec

(* And then documents arrive whole, once and in order: reading implements  *)
(* DocumentChannel.                                                        *)
THEOREM DocumentsAreDelivered ==
  ASSUME FramesKeptTogether
  PROVE  Spec => DeliversDocuments
<1>1. Init => OneByOne /\ Channel!Init
  BY DEF Init, OneByOne, Channel!Init
<1>2. IInv /\ OneByOne /\ [Next]_vars => OneByOne' /\ [Channel!Next]_(Channel!vars)
  BY StepsDeliver DEF Channel!vars, Documents
<1> QED  BY <1>1, <1>2, Invariance, PTL DEF Spec, DeliversDocuments, Channel!Spec
=============================================================================
