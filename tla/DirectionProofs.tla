---------------------------- MODULE DirectionProofs ----------------------------
(***************************************************************************)
(* What the steps of the link do to one direction of it: the bytes of a    *)
(* packet as they are cut, sent and put together again, and one lemma per  *)
(* change of the record Direction(n).                                      *)
(***************************************************************************)
EXTENDS Session, NerfnetProofs

-----------------------------------------------------------------------------
(* Pieces of packets.                                                      *)

LEMMA LengthType ==
  ASSUME NEW n \in Nodes, NEW k
  PROVE  Length(n, k) \in Nat /\ Length(n, k) >= 1
<1>1. Traffic[n] \in Seq(Nat \ {0})
  BY RadioAssumption DEF RadioAssumption
<1>2. k \in 1..Len(Traffic[n]) => Traffic[n][k] \in Nat \ {0}
  BY <1>1, ElementOfSeq
<1> QED
  BY <1>2 DEF Length

(* A piece is the sequence of its bytes. *)
LEMMA PieceType ==
  ASSUME NEW n \in Nodes, NEW k \in Nat, NEW a \in Nat \ {0}, NEW b \in Nat, a <= b + 1
  PROVE  /\ Piece(n, k, a, b) \in Seq(Byte)
         /\ Len(Piece(n, k, a, b)) = b - a + 1
         /\ \A i \in 1..(b - a + 1) : Piece(n, k, a, b)[i] = ByteAt(n, k, a + i - 1)
<1>1. \A i \in 1..(b - a + 1) : ByteAt(n, k, a + i - 1) \in Byte
  BY DEF Byte, ByteAt
<1>2. b - a + 1 \in Nat
  OBVIOUS
<1>3. Piece(n, k, a, b) \in [1..(b - a + 1) -> Byte]
  BY <1>1 DEF Piece
<1>4. Piece(n, k, a, b) \in Seq(Byte)
  BY <1>2, <1>3, SeqDef
<1>5. DOMAIN Piece(n, k, a, b) = 1..(b - a + 1)
  BY DEF Piece
<1>6. Len(Piece(n, k, a, b)) = b - a + 1
  BY <1>2, <1>4, <1>5, LenProperties
<1> QED
  BY <1>4, <1>6 DEF Piece

LEMMA PieceLength ==
  ASSUME NEW n \in Nodes, NEW k \in Nat, NEW a \in Nat \ {0}, NEW b \in Nat, a <= b + 1
  PROVE  Piece(n, k, a, b) \in Seq(Byte) /\ Len(Piece(n, k, a, b)) = b - a + 1
BY PieceType

LEMMA EmptyPiece ==
  ASSUME NEW n \in Nodes, NEW k \in Nat, NEW a \in Nat \ {0}, NEW b \in Nat, a <= b + 1
  PROVE  Piece(n, k, a, b) = <<>> <=> a = b + 1
<1> DEFINE s == Piece(n, k, a, b)
<1>1. s \in Seq(Byte) /\ Len(s) = b - a + 1
  BY PieceLength
<1> HIDE DEF s
<1>2. s = <<>> <=> Len(s) = 0
  BY <1>1, EmptySeq
<1>3. b - a + 1 = 0 <=> a = b + 1
  OBVIOUS
<1> QED
  BY <1>1, <1>2, <1>3 DEF s

(* Reassembly: two adjacent pieces joined. *)
LEMMA JoinPieces ==
  ASSUME NEW n \in Nodes, NEW k \in Nat, NEW a \in Nat \ {0}, NEW b \in Nat, NEW c \in Nat,
         NEW a2 \in Nat \ {0}, a <= b + 1, b <= c, b < a2, a2 <= b + 1
  PROVE  Piece(n, k, a, b) \o Piece(n, k, a2, c) = Piece(n, k, a, c)
<1> DEFINE s == Piece(n, k, a, b)
           t == Piece(n, k, a2, c)
           u == Piece(n, k, a, c)
<1>1. /\ s \in Seq(Byte) /\ Len(s) = b - a + 1
      /\ \A i \in 1..(b - a + 1) : s[i] = ByteAt(n, k, a + i - 1)
  BY PieceType
<1>2. /\ t \in Seq(Byte) /\ Len(t) = c - b
      /\ \A i \in 1..(c - b) : t[i] = ByteAt(n, k, b + i)
  <2>1. a2 <= c + 1
    OBVIOUS
  <2>2. /\ t \in Seq(Byte) /\ Len(t) = c - a2 + 1
        /\ \A i \in 1..(c - a2 + 1) : t[i] = ByteAt(n, k, a2 + i - 1)
    BY <2>1, PieceType
  <2>3. /\ a2 = b + 1
        /\ c - a2 + 1 = c - b
        /\ \A i \in 1..(c - b) : a2 + i - 1 = b + i
    OBVIOUS
  <2> HIDE DEF t
  <2> QED
    BY <2>2, <2>3
<1>3. /\ u \in Seq(Byte) /\ Len(u) = c - a + 1
      /\ \A i \in 1..(c - a + 1) : u[i] = ByteAt(n, k, a + i - 1)
  <2>1. a <= c + 1
    OBVIOUS
  <2> QED
    BY <2>1, PieceType
<1> HIDE DEF s, t, u
<1>4. /\ s \o t \in Seq(Byte)
      /\ Len(s \o t) = Len(s) + Len(t)
      /\ \A i \in 1..(Len(s) + Len(t)) :
           (s \o t)[i] = IF i <= Len(s) THEN s[i] ELSE t[i - Len(s)]
  BY <1>1, <1>2, ConcatProperties
<1>5. Len(s \o t) = Len(u)
  BY <1>1, <1>2, <1>3, <1>4
<1>6. ASSUME NEW i \in 1..Len(u) PROVE (s \o t)[i] = u[i]
  <2>1. i \in 1..(c - a + 1) /\ i \in 1..(Len(s) + Len(t))
    BY <1>3, <1>4, <1>5
  <2>2. u[i] = ByteAt(n, k, a + i - 1)
    BY <1>3, <2>1
  <2>3. CASE i <= Len(s)
    <3>1. i \in 1..(b - a + 1)
      BY <1>1, <2>1, <2>3
    <3>2. (s \o t)[i] = s[i]
      BY <1>4, <2>1, <2>3
    <3> QED
      BY <1>1, <2>2, <3>1, <3>2
  <2>4. CASE ~(i <= Len(s))
    <3> DEFINE l == i - Len(s)
    <3>1. l \in 1..(c - b) /\ b + l = a + i - 1
      BY <1>1, <2>1, <2>4
    <3>2. (s \o t)[i] = t[l]
      BY <1>4, <2>1, <2>4
    <3> HIDE DEF l
    <3>3. t[l] = ByteAt(n, k, b + l)
      BY <1>2, <3>1
    <3> QED
      BY <2>2, <3>1, <3>2, <3>3
  <2> QED
    BY <2>3, <2>4
<1>7. s \o t = u
  BY <1>3, <1>4, <1>5, <1>6, SeqEqual
<1> QED
  BY <1>7 DEF s, t, u

(* SubSeq under a name that the provers leave alone. *)
Slice(s, i, j) == SubSeq(s, i, j)

(* Cutting: a part of a piece is a piece. *)
LEMMA CutPiece ==
  ASSUME NEW n \in Nodes, NEW k \in Nat, NEW a \in Nat \ {0}, NEW b \in Nat, a <= b + 1,
         NEW i \in Nat \ {0}, NEW j \in Nat, i <= j + 1, j <= b - a + 1,
         NEW a2 \in Nat \ {0}, a2 <= a + i - 1, a + i - 1 <= a2,
         NEW b2 \in Nat, b2 <= a + j - 1, a + j - 1 <= b2
  PROVE  Slice(Piece(n, k, a, b), i, j) = Piece(n, k, a2, b2)
<1> DEFINE s == Piece(n, k, a, b)
           t == Piece(n, k, a2, b2)
<1>1. /\ s \in Seq(Byte) /\ Len(s) = b - a + 1
      /\ \A l \in 1..(b - a + 1) : s[l] = ByteAt(n, k, a + l - 1)
  BY PieceType
<1>2. /\ t \in Seq(Byte) /\ Len(t) = j - i + 1
      /\ \A l \in 1..(j - i + 1) : t[l] = ByteAt(n, k, a + (i + l - 1) - 1)
  <2>1. a2 <= b2 + 1
    OBVIOUS
  <2>2. /\ t \in Seq(Byte) /\ Len(t) = b2 - a2 + 1
        /\ \A l \in 1..(b2 - a2 + 1) : t[l] = ByteAt(n, k, a2 + l - 1)
    BY <2>1, PieceType
  <2>3. /\ b2 - a2 + 1 = j - i + 1
        /\ \A l \in 1..(j - i + 1) : a2 + l - 1 = a + (i + l - 1) - 1
    OBVIOUS
  <2> HIDE DEF t
  <2> QED
    BY <2>2, <2>3
<1> HIDE DEF s, t
<1>3. /\ SubSeq(s, i, j) \in Seq(Byte)
      /\ Len(SubSeq(s, i, j)) = IF i <= j THEN j - i + 1 ELSE 0
      /\ \A l \in 1..(j - i + 1) : SubSeq(s, i, j)[l] = s[i + l - 1]
  <2>1. j <= Len(s)
    BY <1>1
  <2> QED
    BY <1>1, <2>1, SubSeqType
<1>4. ASSUME NEW l \in 1..(j - i + 1) PROVE SubSeq(s, i, j)[l] = t[l]
  <2>1. i + l - 1 \in 1..(b - a + 1)
    OBVIOUS
  <2>2. s[i + l - 1] = ByteAt(n, k, a + (i + l - 1) - 1)
    BY <1>1, <2>1
  <2> QED
    BY <1>2, <1>3, <2>2
<1>5. Len(SubSeq(s, i, j)) = j - i + 1
  BY <1>3
<1>6. SubSeq(s, i, j) = t
  BY <1>2, <1>3, <1>4, <1>5, SeqEqual
<1> QED
  BY <1>6 DEF s, t, Slice

(* The packet that a TUN device yields is the whole piece. *)
LEMMA WholePiece ==
  ASSUME NEW n \in Nodes, NEW k \in 1..Len(Traffic[n])
  PROVE  /\ Packet(n, k) = Piece(n, k, 1, Length(n, k))
         /\ PacketNumber(Packet(n, k)) = k
<1>1. Length(n, k) \in Nat /\ Length(n, k) >= 1 /\ Length(n, k) = Traffic[n][k]
  BY LengthType DEF Length
<1>2. Length(n, k) - 1 + 1 = Traffic[n][k] /\ \A i \in Nat : 1 + i - 1 = i
  BY <1>1
<1>3. Packet(n, k) = Piece(n, k, 1, Length(n, k))
  BY <1>2 DEF Packet, Piece, ByteAt
<1>4. Packet(n, k)[1].pkt = k
  BY <1>1 DEF Packet
<1> QED
  BY <1>3, <1>4 DEF PacketNumber

(* IsValidIpPacket accepts the end of a packet only when it is all of it. *)
LEMMA ValidPiece ==
  ASSUME NEW n \in Nodes, NEW k \in Nat, k \in 1..Len(Traffic[n]),
         NEW s \in Nat \ {0}, s <= Length(n, k)
  PROVE  IsValidIpPacket(Piece(n, k, s, Length(n, k))) <=> s = 1
<1> DEFINE m == Length(n, k)
           b == Piece(n, k, s, m)
<1>1. m \in Nat /\ m >= 1
  BY LengthType
<1>2. m = Traffic[n][k]
  BY DEF Length
<1> HIDE DEF m
<1>3. s <= m + 1 /\ 1 \in 1..(m - s + 1)
  BY <1>1 DEF m
<1>4. /\ Len(b) = m - s + 1
      /\ \A i \in 1..(m - s + 1) : b[i] = ByteAt(n, k, s + i - 1)
  <2>1. Len(b) = m - s + 1
    BY <1>1, <1>3, PieceLength
  <2>2. \A i \in 1..(m - s + 1) : b[i] = ByteAt(n, k, s + i - 1)
    BY DEF Piece
  <2> QED
    BY <2>1, <2>2
<1>5. b # <<>>
  BY <1>1, <1>3, EmptyPiece
<1> HIDE DEF b
<1>6. b[1] = ByteAt(n, k, s)
  BY <1>3, <1>4
<1>7. IsValidIpPacket(b) <=> s = 1 /\ m - s + 1 = Traffic[n][k]
  BY <1>4, <1>5, <1>6 DEF IsValidIpPacket, ByteAt
<1> QED
  BY <1>1, <1>2, <1>7 DEF b, m
-----------------------------------------------------------------------------
(* Places in the traffic of n.                                             *)

LEMMA PayloadType == MaxPayload \in Nat /\ MaxPayload >= 1 /\ Uint8Max \in Nat /\ Uint8Max > MaxPayload
BY RadioAssumption DEF RadioAssumption

LEMMA TrafficType ==
  ASSUME NEW n \in Nodes
  PROVE  Len(Traffic[n]) \in Nat
BY RadioAssumption, LenProperties DEF RadioAssumption

(* A fragment has at least one byte. *)
LEMMA EndType ==
  ASSUME NEW n \in Nodes, NEW k \in Nat, NEW p \in Nat \ {0}, p <= Length(n, k)
  PROVE  End(n, k, p) \in Nat /\ p <= End(n, k, p) /\ End(n, k, p) <= Length(n, k)
<1>1. Length(n, k) \in Nat
  BY LengthType
<1> QED
  BY <1>1, PayloadType DEF End, Least

LEMMA FragmentType ==
  ASSUME NEW n \in Nodes, NEW k \in Nat, NEW p \in Nat \ {0}, p <= Length(n, k)
  PROVE  /\ Fragment(n, k, p) \in Seq(Byte)
         /\ Len(Fragment(n, k, p)) = End(n, k, p) - p + 1
         /\ Fragment(n, k, p) # <<>>
<1>1. PICK b \in Nat : b = End(n, k, p) /\ p <= b
  BY EndType
<1>2. p <= b + 1
  BY <1>1
<1>3. Piece(n, k, p, b) \in Seq(Byte) /\ Len(Piece(n, k, p, b)) = b - p + 1
  BY <1>2, PieceLength, ZenonT(60)
<1>4. Piece(n, k, p, b) # <<>>
  BY <1>1, <1>2, EmptyPiece
<1> QED
  BY <1>1, <1>3, <1>4 DEF Fragment

(* The place after a fragment is the next byte of its packet, or the first *)
(* of the next packet.                                                     *)
LEMMA NextPlace ==
  ASSUME NEW n \in Nodes, NEW k \in Nat, NEW p \in Nat \ {0}, p <= Length(n, k)
  PROVE  /\ NextNumber(n, k, p) \in {k, k + 1}
         /\ NextPos(n, k, p) \in Nat \ {0}
         /\ NextPos(n, k, p) <= Length(n, NextNumber(n, k, p))
         /\ IsLast(n, k, p) => NextNumber(n, k, p) = k + 1 /\ NextPos(n, k, p) = 1
         /\ ~IsLast(n, k, p) => /\ NextNumber(n, k, p) = k
                                /\ NextPos(n, k, p) = End(n, k, p) + 1
                                /\ p <= End(n, k, p)
<1>1. End(n, k, p) \in Nat /\ p <= End(n, k, p) /\ End(n, k, p) <= Length(n, k)
  BY EndType
<1>2. Length(n, k) \in Nat /\ Length(n, k + 1) \in Nat /\ Length(n, k + 1) >= 1
  BY LengthType
<1> QED
  BY <1>1, <1>2 DEF NextNumber, NextPos, IsLast

(* CompletesPacket, which looks at the saturated count of bytes, tells the *)
(* last fragment from the others.                                          *)
LEMMA CompletesLast ==
  ASSUME NEW n \in Nodes, NEW k \in Nat, NEW p \in Nat \ {0}, p <= Length(n, k),
         NEW f, f.payload = Fragment(n, k, p),
         f.arg = Least(Length(n, k) - p + 1, Uint8Max)
  PROVE  CompletesPacket(f) <=> IsLast(n, k, p)
<1>1. f.payload # <<>>
  BY FragmentType
<1>2. Length(n, k) \in Nat
  BY LengthType
<1>3. f.arg <= MaxPayload <=> Length(n, k) - p + 1 <= MaxPayload
  BY <1>2, PayloadType DEF Least
<1>4. IsLast(n, k, p) <=> Length(n, k) <= p + MaxPayload - 1
  BY <1>2, PayloadType DEF IsLast, End, Least
<1> QED
  BY <1>1, <1>2, <1>3, <1>4, PayloadType DEF CompletesPacket

(* Joined to what was reassembled, a fragment reaches up to its end. *)
LEMMA JoinFragment ==
  ASSUME NEW n \in Nodes, NEW k \in Nat, NEW p \in Nat \ {0}, p <= Length(n, k),
         NEW s \in Nat \ {0}, s <= p
  PROVE  Piece(n, k, s, p - 1) \o Fragment(n, k, p) = Piece(n, k, s, End(n, k, p))
<1> DEFINE a == p - 1
           c == End(n, k, p)
<1>1. c \in Nat /\ p <= c
  BY EndType
<1>2. a \in Nat /\ s <= a + 1 /\ a <= c /\ a < p /\ p <= a + 1
  BY <1>1
<1> HIDE DEF a, c
<1>3. Piece(n, k, s, a) \o Piece(n, k, p, c) = Piece(n, k, s, c)
  BY <1>1, <1>2, JoinPieces
<1> QED
  BY <1>3 DEF Fragment, a, c

LEMMA NextSeqMoves ==
  ASSUME NEW seq \in Nat
  PROVE  NextSeq(seq) \in 1..MaxSeq /\ NextSeq(seq) # seq /\ NextSeq(seq) # NoSeq
BY RadioAssumption DEF RadioAssumption, NextSeq, NoSeq

(* Sender and receiver count alike. *)
LEMMA SeqsAgree ==
  ASSUME NEW seq \in 1..MaxSeq
  PROVE  AdvancedTxSeq(seq) = NextSeq(seq)
BY RadioAssumption DEF RadioAssumption, NextSeq, AdvancedTxSeq, NoSeq
-----------------------------------------------------------------------------
(* The record that Direction(n) is, and the changes a step can make to it: *)
(* d is the record before the step and e after it.                         *)

Directions ==
  [queue: Seq(QueuedPacket), seq: Nat, flying: BOOLEAN, frames: Seq(Frame),
   acks: Seq(Frame), buffer: Seq(Byte), last: Nat, consumed: Seq(Byte),
   out: Seq(Seq(Byte)), delivered: SUBSET Nat, cut: SUBSET Nat, read: Nat]

LEMMA DirectionType ==
  ASSUME RadioTypeOK, NEW n \in Nodes
  PROVE  Direction(n) \in Directions
<1>1. Other(n) \in Nodes
  BY OtherIsNode
<1> QED
  BY <1>1 DEF RadioTypeOK, Mac, Direction, Directions

SameSender(d, e) ==
  e.queue = d.queue /\ e.seq = d.seq /\ e.flying = d.flying /\ e.read = d.read

SameReceiver(d, e) ==
  /\ e.buffer = d.buffer /\ e.last = d.last /\ e.consumed = d.consumed
  /\ e.out = d.out /\ e.delivered = d.delivered

(* TunnelThread of n. *)
Pushes(n, d, e) ==
  /\ d.read < Len(Traffic[n])
  /\ e.queue = Append(d.queue, Packet(n, d.read + 1))
  /\ e.read = d.read + 1
  /\ e.seq = d.seq /\ e.flying = d.flying
  /\ SameReceiver(d, e)
  /\ e.frames = d.frames /\ e.acks = d.acks /\ e.cut = d.cut

(* n sends f, a request or a reply, and it may arrive. *)
Sends(n, d, e, f) ==
  /\ f.type = "Data" =>
       /\ d.queue # <<>>
       /\ e.flying
       /\ f.seq = d.seq
       /\ f.payload = Fragment(n, HeadNumber(d), HeadPos(d))
       /\ f.arg = Least(Length(n, HeadNumber(d)) - HeadPos(d) + 1, Uint8Max)
  /\ d.flying => e.flying
  /\ e.flying => d.queue # <<>>
  /\ e.queue = d.queue /\ e.seq = d.seq /\ e.read = d.read
  /\ SameReceiver(d, e)
  /\ e.frames \in {d.frames, Append(d.frames, f)}
  /\ e.acks = d.acks /\ e.cut = d.cut

(* The other end sends f, which acknowledges what it consumed last. *)
Answers(d, e, f) ==
  /\ f.ack = d.last
  /\ SameSender(d, e)
  /\ SameReceiver(d, e)
  /\ e.acks \in {d.acks, Append(d.acks, f)}
  /\ e.frames = d.frames /\ e.cut = d.cut

(* n takes the oldest frame: CommitAckLocked. *)
Commits(n, d, e) ==
  /\ d.acks # <<>>
  /\ e.acks = Tail(d.acks)
  /\ IF d.flying /\ d.acks[1].ack = d.seq
     THEN /\ e.queue = Consumed(d.queue, Fragment(n, HeadNumber(d), HeadPos(d)))
          /\ ~e.flying
          /\ e.seq = AdvancedTxSeq(d.seq)
     ELSE e.queue = d.queue /\ e.flying = d.flying /\ e.seq = d.seq
  /\ e.read = d.read
  /\ SameReceiver(d, e)
  /\ e.frames = d.frames /\ e.cut = d.cut

(* What reaches write() when the receiver takes the DATA frame f. *)
Joined(d, f) == d.buffer \o f.payload

Writes(d, f) == CompletesPacket(f) /\ IsValidIpPacket(Joined(d, f))

(* The receiver takes the oldest frame: ConsumeDataFrameLocked. *)
Receives(d, e) ==
  LET f == d.frames[1]
      expected == f.seq # NoSeq /\ (d.last # NoSeq => f.seq = NextSeq(d.last))
  IN  /\ d.frames # <<>>
      /\ e.frames = Tail(d.frames)
      /\ SameSender(d, e)
      /\ e.acks = d.acks
      /\ IF f.type # "Data" \/ (d.last # NoSeq /\ f.seq = d.last)
         THEN SameReceiver(d, e) /\ e.cut = d.cut
         ELSE expected =>
           /\ e.last = f.seq
           /\ e.consumed = f.payload
           /\ e.buffer = IF CompletesPacket(f) THEN <<>> ELSE Joined(d, f)
           /\ IF Writes(d, f)
              THEN /\ e.out = Append(d.out, Joined(d, f))
                   /\ LET k == PacketNumber(Joined(d, f))
                      IN  \/ e.delivered = d.delivered \cup {k} /\ e.cut = d.cut
                          \/ e.delivered = d.delivered /\ e.cut = d.cut \cup {k}
              ELSE e.out = d.out /\ e.delivered = d.delivered /\ e.cut = d.cut

-----------------------------------------------------------------------------
(* The queue and its head.                                                 *)

LEMMA HeadPlace ==
  ASSUME NEW n \in Nodes, NEW d \in Directions, QueueOK(n, d)
  PROVE  /\ HeadNumber(d) \in Nat \ {0} /\ HeadNumber(d) <= Len(Traffic[n]) + 1
         /\ HeadPos(d) \in Nat \ {0} /\ HeadPos(d) <= Length(n, HeadNumber(d))
         /\ d.queue # <<>> => HeadNumber(d) <= d.read /\ HeadNumber(d) \in 1..Len(Traffic[n])
<1>1. Len(d.queue) \in Nat /\ d.read \in Nat /\ Len(d.queue) <= d.read
  BY LenProperties DEF Directions, QueueOK
<1>2. d.queue # <<>> => Len(d.queue) >= 1
  BY EmptySeq DEF Directions
<1>3. d.read <= Len(Traffic[n]) /\ Len(Traffic[n]) \in Nat
  BY TrafficType DEF QueueOK
<1>4. HeadNumber(d) = d.read - Len(d.queue) + 1
  BY DEF HeadNumber
<1>5. Length(n, HeadNumber(d)) \in Nat
  BY LengthType
<1>6. HeadPos(d) \in 1..Length(n, HeadNumber(d))
  BY DEF QueueOK
<1> DEFINE l == Len(d.queue)
           k == HeadNumber(d)
           t == Len(Traffic[n])
<1>7. l \in Nat /\ k = d.read - l + 1
  BY <1>1, <1>4
<1> HIDE DEF l, k, t
<1>8. k \in Nat \ {0} /\ k <= d.read + 1 /\ (l >= 1 => k <= d.read)
  BY <1>1, <1>7 DEF l
<1>9. k <= t + 1 /\ (l >= 1 => k \in 1..t)
  BY <1>1, <1>3, <1>8 DEF t
<1>10. HeadPos(d) \in Nat \ {0} /\ HeadPos(d) <= Length(n, HeadNumber(d))
  BY <1>5, <1>6
<1> QED
  BY <1>2, <1>8, <1>9, <1>10 DEF l, k, t

(* What Done says of a packet stays so. *)
LEMMA DoneStays ==
  ASSUME NEW d, NEW e, d.delivered \subseteq e.delivered, d.cut \subseteq e.cut,
         NEW k, Done(d, k)
  PROVE  Done(e, k)
BY DEF Done

(* A push leaves the head, or makes the packet that is pushed the head. *)
LEMMA PushQueue ==
  ASSUME NEW n \in Nodes, NEW d \in Directions, NEW e \in Directions, QueueOK(n, d),
         Pushes(n, d, e)
  PROVE  QueueOK(n, e) /\ HeadNumber(e) = HeadNumber(d) /\ HeadPos(e) = HeadPos(d)
<1> DEFINE k == d.read + 1
<1>1. /\ d.queue \in Seq(QueuedPacket) /\ d.read \in Nat
      /\ Len(d.queue) \in Nat /\ Len(d.queue) <= d.read
  BY LenProperties DEF Directions, QueueOK
<1>2. k \in 1..Len(Traffic[n])
  BY <1>1, TrafficType DEF Pushes
<1>3. Packet(n, k) \in QueuedPacket
  BY <1>2, PacketType
<1>4. e.queue = Append(d.queue, Packet(n, k)) /\ e.read = k
  BY DEF Pushes
<1>5. /\ Len(e.queue) = Len(d.queue) + 1
      /\ e.queue # <<>>
      /\ \A i \in 1..Len(d.queue) : e.queue[i] = d.queue[i]
      /\ e.queue[Len(d.queue) + 1] = Packet(n, k)
  BY <1>1, <1>3, <1>4, AppendProperties
<1>6. HeadNumber(e) = HeadNumber(d)
  <2>1. \A r, l \in Nat : (r + 1) - (l + 1) + 1 = r - l + 1
    OBVIOUS
  <2>2. Len(e.queue) = Len(d.queue) + 1 /\ e.read = d.read + 1
    BY <1>4, <1>5
  <2> QED
    BY <1>1, <2>1, <2>2 DEF HeadNumber
<1>7. CASE d.queue = <<>>
  <2>1. Len(d.queue) = 0
    BY <1>7, EmptySeq
  <2>2. HeadNumber(e) = k /\ e.queue[1] = Packet(n, k)
    BY <1>1, <1>4, <1>5, <2>1 DEF HeadNumber
  <2>3. Length(n, k) \in Nat /\ Length(n, k) >= 1 /\ Length(n, k) = Traffic[n][k]
    BY <1>2, LengthType DEF Length
  <2>4. Packet(n, k)[1].pos = 1
    BY <2>3 DEF Packet
  <2>5. HeadPos(e) = 1 /\ HeadPos(d) = 1
    BY <1>5, <1>7, <2>2, <2>4 DEF HeadPos
  <2>6. e.queue[1] = Piece(n, HeadNumber(e), HeadPos(e), Length(n, HeadNumber(e)))
    BY <1>2, <2>2, <2>5, WholePiece
  <2>7. \A i \in 2..Len(e.queue) : FALSE
    BY <1>5, <2>1
  <2>8. Len(e.queue) <= e.read /\ e.read <= Len(Traffic[n]) /\ HeadPos(e) \in 1..Length(n, HeadNumber(e))
    BY <1>1, <1>2, <1>4, <1>5, <2>2, <2>3, <2>5
  <2>9. e.seq \in 1..MaxSeq
    BY DEF QueueOK, Pushes
  <2> QED
    BY <1>5, <1>6, <2>5, <2>6, <2>7, <2>8, <2>9 DEF QueueOK
<1>8. CASE d.queue # <<>>
  <2>1. Len(d.queue) >= 1
    BY <1>1, <1>8, EmptySeq
  <2>2. e.queue[1] = d.queue[1]
    BY <1>1, <1>5, <2>1
  <2>3. HeadPos(e) = HeadPos(d)
    BY <1>5, <1>8, <2>2 DEF HeadPos
  <2>4. \A i \in 2..Len(e.queue) : e.queue[i] = Packet(n, e.read - Len(e.queue) + i)
    <3> TAKE i \in 2..Len(e.queue)
    <3>1. e.read - Len(e.queue) + i = d.read - Len(d.queue) + i
      BY <1>1, <1>4, <1>5
    <3>2. CASE i = Len(d.queue) + 1
      <4>1. d.read - Len(d.queue) + i = k
        BY <1>1, <3>2
      <4> QED
        BY <1>5, <3>1, <3>2, <4>1
    <3>3. CASE i # Len(d.queue) + 1
      <4>1. i \in 2..Len(d.queue) /\ i \in 1..Len(d.queue)
        BY <1>1, <1>5, <3>3
      <4> QED
        BY <1>5, <3>1, <4>1 DEF QueueOK
    <3> QED
      BY <3>2, <3>3
  <2>5. Len(e.queue) <= e.read /\ e.read <= Len(Traffic[n])
    BY <1>1, <1>2, <1>4, <1>5
  <2>6. e.seq \in 1..MaxSeq
    BY DEF QueueOK, Pushes
  <2> QED
    BY <1>5, <1>6, <1>8, <2>2, <2>3, <2>4, <2>5, <2>6 DEF QueueOK
<1> QED
  BY <1>7, <1>8

LEMMA FirstOfPiece ==
  ASSUME NEW n \in Nodes, NEW k \in Nat, NEW a \in Nat \ {0}, NEW b \in Nat, a <= b
  PROVE  /\ Piece(n, k, a, b) \in Seq(Byte) /\ Piece(n, k, a, b) # <<>>
         /\ Piece(n, k, a, b)[1].pos = a
<1>1. a <= b + 1 /\ a # b + 1 /\ 1 \in 1..(b - a + 1) /\ a + 1 - 1 = a
  OBVIOUS
<1>2. Piece(n, k, a, b) \in Seq(Byte)
  BY <1>1, PieceType
<1>3. Piece(n, k, a, b) # <<>>
  BY <1>1, EmptyPiece
<1>4. Piece(n, k, a, b)[1] = ByteAt(n, k, a)
  BY <1>1 DEF Piece
<1> QED
  BY <1>2, <1>3, <1>4 DEF ByteAt

(* What remains of a piece when its bytes up to b are erased. *)
LEMMA RestOfPiece ==
  ASSUME NEW n \in Nodes, NEW k \in Nat, NEW p \in Nat \ {0}, NEW b \in Nat, NEW m \in Nat,
         p <= b, b <= m
  PROVE  /\ Len(Piece(n, k, p, m)) = m - p + 1
         /\ SubSeq(Piece(n, k, p, m), b - p + 2, m - p + 1) = Piece(n, k, b + 1, m)
         /\ Piece(n, k, b + 1, m) = <<>> <=> b = m
<1> DEFINE i == b - p + 2
           j == m - p + 1
           c == b + 1
<1>1. i \in Nat \ {0} /\ j \in Nat /\ i <= j + 1 /\ j <= m - p + 1 /\ p <= m + 1
  OBVIOUS
<1>2. j = m - p + 1 /\ i = b - p + 2
  OBVIOUS
<1>3. c \in Nat \ {0} /\ c <= m + 1 /\ (c = m + 1 <=> b = m)
  OBVIOUS
<1>7. /\ c \in Nat \ {0} /\ c <= p + i - 1 /\ p + i - 1 <= c /\ m <= p + j - 1 /\ p + j - 1 <= m
  OBVIOUS
<1> HIDE DEF i, j, c
<1>4. Slice(Piece(n, k, p, m), i, j) = Piece(n, k, c, m)
  BY <1>1, <1>7, CutPiece
<1>5. Len(Piece(n, k, p, m)) = m - p + 1
  BY <1>1, PieceType
<1>6. Piece(n, k, c, m) = <<>> <=> c = m + 1
  BY <1>3, EmptyPiece
<1> QED
  BY <1>2, <1>3, <1>4, <1>5, <1>6 DEF c, Slice

(* Erasing a fragment from a piece that begins with it. *)
LEMMA ErasedPiece ==
  ASSUME NEW n \in Nodes, NEW k \in Nat, NEW p \in Nat \ {0}, p <= Length(n, k),
         NEW queue \in Seq(QueuedPacket), queue # <<>>,
         queue[1] = Piece(n, k, p, Length(n, k))
  PROVE  Consumed(queue, Fragment(n, k, p))
           = IF IsLast(n, k, p) THEN Tail(queue)
             ELSE [queue EXCEPT ![1] = Piece(n, k, End(n, k, p) + 1, Length(n, k))]
<1> DEFINE m == Length(n, k)
           b == End(n, k, p)
           rest == Piece(n, k, b + 1, m)
<1>1. m \in Nat /\ b \in Nat /\ p <= b /\ b <= m
  BY LengthType, EndType
<1>2. Head(queue) = Piece(n, k, p, m)
  OBVIOUS
<1>3. Len(Fragment(n, k, p)) = b - p + 1
  BY FragmentType
<1> HIDE DEF m, b
<1>4. /\ Len(Piece(n, k, p, m)) = m - p + 1
      /\ SubSeq(Piece(n, k, p, m), b - p + 2, m - p + 1) = rest
      /\ rest = <<>> <=> b = m
  BY <1>1, RestOfPiece
<1>5. Least(m - p + 1, b - p + 1) + 1 = b - p + 2
  BY <1>1 DEF Least
<1> HIDE DEF rest
<1>6. Consumed(queue, Fragment(n, k, p))
        = IF rest = <<>> THEN Tail(queue) ELSE [queue EXCEPT ![1] = rest]
  BY <1>2, <1>3, <1>4, <1>5 DEF Consumed
<1> QED
  BY <1>4, <1>6 DEF IsLast, m, b, rest

(* An ACK of the fragment in flight moves the head to the place after it.  *)
LEMMA CommitQueue ==
  ASSUME NEW n \in Nodes, NEW d \in Directions, NEW e \in Directions, QueueOK(n, d),
         Commits(n, d, e), d.flying, d.acks[1].ack = d.seq
  PROVE  /\ QueueOK(n, e)
         /\ HeadNumber(e) = NextNumber(n, HeadNumber(d), HeadPos(d))
         /\ HeadPos(e) = NextPos(n, HeadNumber(d), HeadPos(d))
         /\ e.seq = NextSeq(d.seq)
<1> DEFINE k == HeadNumber(d)
           p == HeadPos(d)
           q == d.queue
<1>1. /\ k \in Nat \ {0} /\ p \in Nat \ {0} /\ p <= Length(n, k)
      /\ q # <<>> /\ k <= d.read /\ k \in 1..Len(Traffic[n])
  BY HeadPlace DEF QueueOK
<1>2. /\ q \in Seq(QueuedPacket) /\ d.read \in Nat /\ Len(q) \in Nat
      /\ Len(q) >= 1 /\ Len(q) <= d.read /\ k = d.read - Len(q) + 1
      /\ d.read <= Len(Traffic[n]) /\ Len(Traffic[n]) \in Nat
  <2>1. q \in Seq(QueuedPacket) /\ d.read \in Nat
    BY DEF Directions
  <2>2. Len(q) \in Nat
    BY <2>1, LenProperties
  <2>3. Len(q) >= 1
    BY <1>1, <2>1, <2>2, EmptySeq
  <2>4. k = d.read - Len(q) + 1 /\ Len(q) <= d.read /\ d.read <= Len(Traffic[n])
    BY DEF QueueOK, HeadNumber
  <2> QED
    BY <2>1, <2>2, <2>3, <2>4, TrafficType
<1>3. /\ q[1] = Piece(n, k, p, Length(n, k))
      /\ \A i \in 2..Len(q) : q[i] = Packet(n, d.read - Len(q) + i)
  BY <1>1 DEF QueueOK
<1>4. /\ e.queue = Consumed(q, Fragment(n, k, p))
      /\ ~e.flying /\ e.seq = AdvancedTxSeq(d.seq) /\ e.read = d.read
  BY DEF Commits
<1>5. e.seq = NextSeq(d.seq) /\ e.seq \in 1..MaxSeq
  <2>1. AdvancedTxSeq(d.seq) = NextSeq(d.seq)
    BY SeqsAgree DEF QueueOK
  <2>2. NextSeq(d.seq) \in 1..MaxSeq
    BY NextSeqMoves DEF Directions
  <2> QED
    BY <1>4, <2>1, <2>2
<1> HIDE DEF k, p
<1> DEFINE rest == Piece(n, k, End(n, k, p) + 1, Length(n, k))
<1>8. e.queue = IF IsLast(n, k, p) THEN Tail(q) ELSE [q EXCEPT ![1] = rest]
  <2>1. q \in Seq(QueuedPacket)
    BY <1>2
  <2>2. Consumed(q, Fragment(n, k, p))
          = IF IsLast(n, k, p) THEN Tail(q) ELSE [q EXCEPT ![1] = rest]
    BY <1>1, <1>3, <2>1, ErasedPiece
  <2> QED
    BY <1>4, <2>2
<1>6. CASE IsLast(n, k, p)
  <2>1. e.queue = Tail(q)
    BY <1>6, <1>8
  <2>2. /\ Len(e.queue) = Len(q) - 1
        /\ \A i \in 1..(Len(q) - 1) : e.queue[i] = q[i + 1]
    BY <1>1, <1>2, <2>1, HeadTailProperties
  <2>3. NextNumber(n, k, p) = k + 1 /\ NextPos(n, k, p) = 1
    BY <1>6 DEF NextNumber, NextPos
  <2>4. HeadNumber(e) = k + 1
    <3> DEFINE l == Len(q)
    <3>1. HeadNumber(e) = d.read - (l - 1) + 1
      BY <1>4, <2>2 DEF HeadNumber
    <3>2. l \in Nat /\ d.read \in Nat /\ k = d.read - l + 1
      BY <1>2
    <3> HIDE DEF l
    <3> QED
      BY <3>1, <3>2
  <2>5. \A i \in 1..(Len(q) - 1) : e.queue[i] = Packet(n, e.read - Len(e.queue) + i)
    <3> TAKE i \in 1..(Len(q) - 1)
    <3>1. i + 1 \in 2..Len(q)
      BY <1>2
    <3>2. e.read - Len(e.queue) + i = d.read - Len(q) + (i + 1)
      <4>1. \A r, l \in Nat : r - (l - 1) + i = r - l + (i + 1)
        OBVIOUS
      <4> QED
        BY <1>2, <1>4, <2>2, <4>1
    <3> QED
      BY <1>3, <2>2, <3>1, <3>2
  <2>6. CASE e.queue = <<>>
    <3>1. HeadPos(e) = 1 /\ Len(e.queue) = 0
      BY <2>6, EmptySeq DEF HeadPos
    <3>2. Length(n, HeadNumber(e)) \in Nat /\ Length(n, HeadNumber(e)) >= 1
      BY LengthType
    <3>3. \A i \in 2..Len(e.queue) : FALSE
      BY <3>1
    <3>4. QueueOK(n, e)
      BY <1>2, <1>4, <1>5, <2>6, <3>1, <3>2, <3>3 DEF QueueOK
    <3> QED
      BY <1>5, <2>3, <2>4, <3>1, <3>4 DEF k, p
  <2>7. CASE e.queue # <<>>
    <3>1. Len(e.queue) >= 1 /\ 1 \in 1..(Len(q) - 1)
      BY <1>2, <2>2, <2>7, EmptySeq DEF Directions
    <3>2. e.read - Len(e.queue) + 1 = k + 1
      BY <2>4 DEF HeadNumber
    <3>3. e.queue[1] = Packet(n, k + 1)
      BY <2>5, <3>1, <3>2
    <3>4. k + 1 \in 1..Len(Traffic[n])
      BY <1>2, <1>4, <2>2, <3>1
    <3>5. /\ Length(n, k + 1) \in Nat /\ Length(n, k + 1) >= 1
          /\ Length(n, k + 1) = Traffic[n][k + 1]
      BY <3>4, LengthType DEF Length
    <3>6. e.queue[1][1].pos = 1
      BY <3>3, <3>5 DEF Packet
    <3>7. HeadPos(e) = 1
      BY <2>7, <3>6 DEF HeadPos
    <3>8. e.queue[1] = Piece(n, HeadNumber(e), HeadPos(e), Length(n, HeadNumber(e)))
      BY <2>4, <3>3, <3>4, <3>7, WholePiece
    <3>9. \A i \in 2..Len(e.queue) : e.queue[i] = Packet(n, e.read - Len(e.queue) + i)
      BY <1>2, <2>2, <2>5
    <3>10. Len(e.queue) <= e.read /\ e.read <= Len(Traffic[n])
      BY <1>2, <1>4, <2>2
    <3>11. HeadPos(e) \in 1..Length(n, HeadNumber(e))
      BY <2>4, <3>5, <3>7
    <3>12. QueueOK(n, e)
      BY <1>4, <1>5, <3>8, <3>9, <3>10, <3>11 DEF QueueOK
    <3> QED
      BY <1>5, <2>3, <2>4, <3>7, <3>12 DEF k, p
  <2> QED
    BY <2>6, <2>7
<1>7. CASE ~IsLast(n, k, p)
  <2> DEFINE c == End(n, k, p) + 1
             m == Length(n, k)
  <2>1. NextNumber(n, k, p) = k /\ NextPos(n, k, p) = c
    BY <1>1, <1>7, NextPlace
  <2>2. e.queue = [q EXCEPT ![1] = rest]
    BY <1>7, <1>8
  <2>3. c \in Nat \ {0} /\ c <= m
    BY <1>1, <1>7, <2>1, NextPlace
  <2>4. m \in Nat /\ k \in Nat
    BY <1>1, LengthType
  <2> HIDE DEF c, m
  <2>5. rest \in Seq(Byte) /\ rest # <<>> /\ rest[1].pos = c
    <3>1. PICK x \in Nat \ {0}, y \in Nat : x = c /\ y = m /\ x <= y
      BY <2>3, <2>4
    <3>2. /\ Piece(n, k, x, y) \in Seq(Byte) /\ Piece(n, k, x, y) # <<>>
          /\ Piece(n, k, x, y)[1].pos = x
      BY <2>4, <3>1, FirstOfPiece
    <3> QED
      BY <3>1, <3>2 DEF c, m
  <2> HIDE DEF rest
  <2>6. /\ Len(e.queue) = Len(q)
        /\ e.queue[1] = rest
        /\ \A i \in 2..Len(q) : e.queue[i] = q[i]
    <3>1. 1 \in 1..Len(q) /\ rest \in QueuedPacket
      BY <1>2, <2>5 DEF QueuedPacket
    <3>2. \A i \in 2..Len(q) : i \in 1..Len(q) /\ i # 1
      OBVIOUS
    <3> QED
      BY <1>2, <2>2, <3>1, <3>2, ExceptSeq
  <2>7. HeadNumber(e) = k
    BY <1>2, <1>4, <2>6 DEF HeadNumber
  <2>8. e.queue # <<>>
    BY <1>2, <2>6, EmptySeq
  <2>9. HeadPos(e) = c
    BY <2>5, <2>6, <2>8 DEF HeadPos
  <2>10. \A i \in 2..Len(e.queue) : e.queue[i] = Packet(n, e.read - Len(e.queue) + i)
    BY <1>3, <1>4, <2>6
  <2>11. QueueOK(n, e)
    <3>1. HeadPos(e) \in 1..Length(n, HeadNumber(e))
      BY <2>3, <2>4, <2>7, <2>9 DEF m
    <3>2. e.queue[1] = Piece(n, HeadNumber(e), HeadPos(e), Length(n, HeadNumber(e)))
      BY <2>6, <2>7, <2>9 DEF rest, c
    <3> QED
      BY <1>2, <1>4, <1>5, <2>6, <2>10, <3>1, <3>2 DEF QueueOK
  <2> QED
    BY <1>5, <2>1, <2>7, <2>9, <2>11 DEF k, p
<1> QED
  BY <1>6, <1>7
-----------------------------------------------------------------------------
(* Frames on their way.                                                    *)

LEMMA FrameIndex ==
  ASSUME NEW s \in Seq(Frame)
  PROVE  DOMAIN s = 1..Len(s) /\ Len(s) \in Nat /\ \A i \in DOMAIN s : s[i] \in Frame
BY LenProperties, ElementOfSeq

(* A frame that arrives is the last one. *)
LEMMA AppendFrame ==
  ASSUME NEW s \in Seq(Frame), NEW f \in Frame
  PROVE  \A i \in DOMAIN Append(s, f) :
           \/ i \in DOMAIN s /\ Append(s, f)[i] = s[i]
           \/ Append(s, f)[i] = f /\ \A j \in DOMAIN Append(s, f) : ~(j > i)
<1>1. /\ Append(s, f) \in Seq(Frame) /\ Len(s) \in Nat
      /\ Len(Append(s, f)) = Len(s) + 1
      /\ \A i \in 1..Len(s) : Append(s, f)[i] = s[i]
      /\ Append(s, f)[Len(s) + 1] = f
  BY AppendProperties, LenProperties
<1>2. DOMAIN s = 1..Len(s) /\ DOMAIN Append(s, f) = 1..Len(Append(s, f))
  BY <1>1, FrameIndex
<1> TAKE i \in DOMAIN Append(s, f)
<1>3. CASE i \in 1..Len(s)
  BY <1>1, <1>2, <1>3
<1>4. CASE i = Len(s) + 1
  BY <1>1, <1>2, <1>4
<1> QED
  BY <1>1, <1>2, <1>3, <1>4

(* The frames left when the oldest is taken keep their order. *)
LEMMA TailFrame ==
  ASSUME NEW s \in Seq(Frame), s # <<>>
  PROVE  /\ 1 \in DOMAIN s
         /\ \A i \in DOMAIN Tail(s) : /\ i \in Nat
                                      /\ i + 1 \in DOMAIN s /\ i + 1 > 1
                                      /\ Tail(s)[i] = s[i + 1]
<1>1. /\ Tail(s) \in Seq(Frame) /\ Len(Tail(s)) = Len(s) - 1
      /\ \A i \in 1..(Len(s) - 1) : Tail(s)[i] = s[i + 1]
  BY HeadTailProperties
<1>2. DOMAIN s = 1..Len(s) /\ Len(s) \in Nat /\ DOMAIN Tail(s) = 1..Len(Tail(s))
  BY <1>1, FrameIndex
<1>3. Len(s) >= 1
  BY <1>2, EmptySeq
<1> QED
  BY <1>1, <1>2, <1>3

(* The part of Expects that is about the frames. *)
OnTheWay(n, d, k, p) ==
  \A i \in DOMAIN d.frames : d.frames[i].type = "Data" =>
    \/ IsCopy(d, d.frames[i])
    \/ /\ IsFresh(n, d, d.frames[i], k, p)
       /\ \A j \in DOMAIN d.frames :
            j > i /\ d.frames[j].type = "Data" => d.frames[j].seq = NextSeq(d.last)

LEMMA AssembledStays ==
  ASSUME NEW n, NEW d, NEW e, NEW k, NEW p, SameReceiver(d, e), d.cut \subseteq e.cut,
         Assembled(n, d, k, p)
  PROVE  Assembled(n, e, k, p)
BY DEF SameReceiver, Assembled, Done

LEMMA FreshStays ==
  ASSUME NEW n \in Nodes, NEW d \in Directions, NEW e \in Directions, NEW f,
         NEW k \in Nat, NEW p,
         SameReceiver(d, e), HeadNumber(d) \in Nat, HeadNumber(e) \in Nat,
         HeadNumber(d) <= HeadNumber(e), d.read <= e.read
  PROVE  /\ IsFresh(n, d, f, k, p) => IsFresh(n, e, f, k, p)
         /\ IsCopy(d, f) => IsCopy(e, f)
         /\ e.last = d.last
<1>1. d.read \in Nat /\ e.read \in Nat
  BY DEF Directions
<1> QED
  BY <1>1 DEF IsFresh, IsCopy, SameReceiver

(* What the receiver expects does not change with the sender's queue. *)
LEMMA ExpectsStays ==
  ASSUME NEW n \in Nodes, NEW d \in Directions, NEW e \in Directions, NEW k, NEW p,
         SameReceiver(d, e), d.cut \subseteq e.cut, e.frames = d.frames,
         HeadNumber(d) \in Nat, HeadNumber(e) \in Nat,
         HeadNumber(d) <= HeadNumber(e), d.read <= e.read, Expects(n, d, k, p)
  PROVE  Expects(n, e, k, p)
<1>1. Assembled(n, e, k, p)
  BY AssembledStays DEF Expects
<1>2. k \in Nat
  BY TrafficType DEF Expects, Assembled
<1>3. OnTheWay(n, e, k, p)
  BY <1>2, FreshStays DEF Expects, OnTheWay
<1> QED
  BY <1>1, <1>3 DEF Expects, OnTheWay

(* ... or with another frame, if that is a copy of the one consumed last   *)
(* and no later fragment is on its way, or carries the fragment expected.  *)
LEMMA ExpectsMore ==
  ASSUME NEW n \in Nodes, NEW d \in Directions, NEW e \in Directions, NEW k, NEW p,
         NEW f \in Frame,
         SameReceiver(d, e), d.cut \subseteq e.cut, e.frames = Append(d.frames, f),
         HeadNumber(d) \in Nat, HeadNumber(e) \in Nat,
         HeadNumber(d) <= HeadNumber(e), d.read <= e.read, Expects(n, d, k, p),
         f.type = "Data" =>
           \/ IsFresh(n, e, f, k, p)
           \/ /\ IsCopy(d, f)
              /\ \A i \in DOMAIN d.frames :
                   d.frames[i].type = "Data" => d.frames[i].seq = d.last
  PROVE  Expects(n, e, k, p)
<1>1. Assembled(n, e, k, p)
  BY AssembledStays DEF Expects
<1>2. k \in Nat
  BY TrafficType DEF Expects, Assembled
<1>3. d.frames \in Seq(Frame) /\ d.last \in Nat /\ e.last = d.last
  BY DEF Directions, SameReceiver
<1>4. \A i \in DOMAIN e.frames :
        \/ i \in DOMAIN d.frames /\ e.frames[i] = d.frames[i]
        \/ e.frames[i] = f /\ \A j \in DOMAIN e.frames : ~(j > i)
  BY <1>3, AppendFrame
<1>5. NextSeq(d.last) # d.last
  BY <1>3, NextSeqMoves
<1>6. ASSUME NEW i \in DOMAIN e.frames, e.frames[i].type = "Data"
      PROVE  \/ IsCopy(e, e.frames[i])
             \/ /\ IsFresh(n, e, e.frames[i], k, p)
                /\ \A j \in DOMAIN e.frames :
                     j > i /\ e.frames[j].type = "Data" => e.frames[j].seq = NextSeq(e.last)
  <2>1. CASE e.frames[i] = f /\ \A j \in DOMAIN e.frames : ~(j > i)
    <3>1. IsFresh(n, e, f, k, p) \/ IsCopy(e, f)
      BY <1>2, <1>6, <2>1, FreshStays
    <3> QED
      BY <2>1, <3>1
  <2>2. CASE i \in DOMAIN d.frames /\ e.frames[i] = d.frames[i]
    <3>1. \/ IsCopy(d, d.frames[i])
          \/ /\ IsFresh(n, d, d.frames[i], k, p)
             /\ \A j \in DOMAIN d.frames :
                  j > i /\ d.frames[j].type = "Data" => d.frames[j].seq = NextSeq(d.last)
      BY <1>6, <2>2 DEF Expects
    <3>2. CASE IsCopy(d, d.frames[i])
      BY <1>2, <2>2, <3>2, FreshStays
    <3>3. CASE /\ IsFresh(n, d, d.frames[i], k, p)
               /\ \A j \in DOMAIN d.frames :
                    j > i /\ d.frames[j].type = "Data" => d.frames[j].seq = NextSeq(d.last)
      <4>1. IsFresh(n, e, e.frames[i], k, p)
        BY <1>2, <2>2, <3>3, FreshStays
      <4>2. d.frames[i].seq # d.last
        BY <1>5, <3>3 DEF IsFresh
      <4>3. f.type = "Data" => f.seq = NextSeq(d.last)
        BY <1>3, <1>6, <2>2, <4>2 DEF IsFresh
      <4>4. \A j \in DOMAIN e.frames :
              j > i /\ e.frames[j].type = "Data" => e.frames[j].seq = NextSeq(e.last)
        BY <1>3, <1>4, <3>3, <4>3
      <4> QED
        BY <4>1, <4>4
    <3> QED
      BY <3>1, <3>2, <3>3
  <2> QED
    BY <1>4, <2>1, <2>2
<1> QED
  BY <1>1, <1>6 DEF Expects
-----------------------------------------------------------------------------
(* TunnelThread, and what is sent.                                         *)

(* The same head, the same history. *)
LEMMA HistoryStays ==
  ASSUME NEW n, NEW d, NEW e, HistoryOK(n, d), HeadNumber(e) = HeadNumber(d),
         e.out = d.out, e.delivered = d.delivered, d.cut \subseteq e.cut
  PROVE  HistoryOK(n, e)
BY DEF HistoryOK, Done

LEMMA PushDirection ==
  ASSUME NEW n \in Nodes, NEW d \in Directions, NEW e \in Directions, QueueOK(n, d),
         HistoryOK(n, d), Pushes(n, d, e)
  PROVE  /\ QueueOK(n, e) /\ HistoryOK(n, e)
         /\ \A k, p : Expects(n, d, k, p) => Expects(n, e, k, p)
         /\ Synchronised(n, d) => Synchronised(n, e)
         /\ AcksAreTrue(n, d) => AcksAreTrue(n, e)
<1>1. QueueOK(n, e) /\ HeadNumber(e) = HeadNumber(d) /\ HeadPos(e) = HeadPos(d)
  BY PushQueue
<1>2. HistoryOK(n, e)
  BY <1>1, HistoryStays DEF Pushes, SameReceiver
<1>3. ASSUME NEW k, NEW p, Expects(n, d, k, p) PROVE Expects(n, e, k, p)
  <2>1. HeadNumber(d) \in Nat /\ HeadNumber(e) \in Nat /\ HeadNumber(d) <= HeadNumber(e)
    BY <1>1, HeadPlace
  <2>2. d.read <= e.read
    <3>1. d.read \in Nat
      BY DEF Directions
    <3>2. e.read = d.read + 1
      BY DEF Pushes
    <3> QED
      BY <3>1, <3>2
  <2> QED
    BY <1>3, <2>1, <2>2, ExpectsStays DEF Pushes
<1>4. Due(n, d) => Due(n, e)
  BY <1>1, <1>3 DEF Due, Pushes, SameReceiver
<1>5. Taken(n, d) => Taken(n, e)
  BY <1>1, <1>3 DEF Taken, Pushes, SameReceiver
<1>6. AcksAreTrue(n, d) => AcksAreTrue(n, e)
  BY <1>1 DEF AcksAreTrue, Pushes, SameReceiver, Done
<1> QED
  BY <1>1, <1>2, <1>3, <1>4, <1>5, <1>6 DEF Synchronised

LEMMA SendQueue ==
  ASSUME NEW n \in Nodes, NEW d \in Directions, NEW e \in Directions, QueueOK(n, d),
         HistoryOK(n, d), NEW f, Sends(n, d, e, f)
  PROVE  /\ QueueOK(n, e) /\ HistoryOK(n, e)
         /\ HeadNumber(e) = HeadNumber(d) /\ HeadPos(e) = HeadPos(d)
         /\ AcksAreTrue(n, d) => AcksAreTrue(n, e)
<1>1. HeadNumber(e) = HeadNumber(d) /\ HeadPos(e) = HeadPos(d)
  BY DEF Sends, HeadNumber, HeadPos
<1>2. QueueOK(n, e)
  BY <1>1 DEF Sends, QueueOK
<1>3. HistoryOK(n, e)
  BY <1>1, HistoryStays DEF Sends, SameReceiver
<1>4. AcksAreTrue(n, d) => AcksAreTrue(n, e)
  BY <1>1 DEF AcksAreTrue, Sends, SameReceiver, Done
<1> QED
  BY <1>1, <1>2, <1>3, <1>4

(* A frame with the head fragment is the one that the receiver expects, or *)
(* a copy of the one that it has consumed.                                 *)
LEMMA SendDirection ==
  ASSUME NEW n \in Nodes, NEW d \in Directions, NEW e \in Directions, QueueOK(n, d),
         HistoryOK(n, d), NEW f \in Frame, Sends(n, d, e, f), Synchronised(n, d)
  PROVE  Synchronised(n, e)
<1> DEFINE k == HeadNumber(d)
           p == HeadPos(d)
<1>1. k \in Nat \ {0} /\ p \in Nat \ {0} /\ (d.queue # <<>> => k <= d.read)
  BY HeadPlace
<1>2. HeadNumber(e) = k /\ HeadPos(e) = p
  BY SendQueue
<1>3. d.read \in Nat /\ e.read = d.read
  BY DEF Directions, Sends
<1>4. SameReceiver(d, e) /\ e.cut = d.cut /\ e.seq = d.seq /\ e.acks = d.acks
  BY DEF Sends
<1>5. d.frames \in Seq(Frame) /\ d.last \in Nat
  BY DEF Directions
<1>6. e.frames = Append(d.frames, f) =>
        \A i \in DOMAIN e.frames :
          \/ i \in DOMAIN d.frames /\ e.frames[i] = d.frames[i]
          \/ e.frames[i] = f
  BY <1>5, AppendFrame
<1>7. e.frames = d.frames \/ e.frames = Append(d.frames, f)
  BY DEF Sends
<1>8. k <= HeadNumber(e) /\ HeadNumber(e) \in Nat /\ d.read <= e.read
  BY <1>1, <1>2, <1>3
<1>9. CASE Due(n, d)
  <2>1. f.type = "Data" => IsFresh(n, e, f, k, p)
    <3> HAVE f.type = "Data"
    <3>1. /\ f.seq = d.seq /\ f.payload = Fragment(n, k, p)
          /\ f.arg = Least(Length(n, k) - p + 1, Uint8Max)
          /\ k <= d.read
      BY <1>1 DEF Sends
    <3>2. f.seq = NextSeq(e.last)
      BY <1>4, <1>9, <3>1 DEF Due, SameReceiver
    <3> QED
      BY <1>1, <1>2, <1>3, <3>1, <3>2 DEF IsFresh
  <2>2. Expects(n, d, k, p)
    BY <1>9 DEF Due
  <2>3. Expects(n, e, k, p)
    <3>1. CASE e.frames = d.frames
      BY <1>1, <1>4, <1>8, <2>2, <3>1, ExpectsStays
    <3>2. CASE e.frames = Append(d.frames, f)
      BY <1>1, <1>4, <1>8, <2>1, <2>2, <3>2, ExpectsMore
    <3> QED
      BY <1>7, <3>1, <3>2
  <2>4. \A i \in DOMAIN e.frames :
          e.frames[i].type = "Data" /\ e.frames[i].seq = e.seq => e.flying
    BY <1>4, <1>6, <1>7, <1>9 DEF Due, Sends
  <2>5. e.seq = NextSeq(e.last) /\ \A i \in DOMAIN e.acks : e.acks[i].ack = e.last
    BY <1>4, <1>9 DEF Due, SameReceiver
  <2> QED
    BY <1>2, <2>3, <2>4, <2>5 DEF Due, Synchronised
<1>10. CASE Taken(n, d)
  <2> DEFINE k2 == NextNumber(n, k, p)
             p2 == NextPos(n, k, p)
  <2>1. Expects(n, d, k2, p2)
    BY <1>10 DEF Taken
  <2>2. d.seq = d.last /\ d.consumed = Fragment(n, k, p)
        /\ \A i \in DOMAIN d.frames : d.frames[i].type = "Data" => d.frames[i].seq = d.last
    BY <1>10 DEF Taken
  <2>3. d.seq # NoSeq
    BY RadioAssumption DEF QueueOK, RadioAssumption, NoSeq
  <2>4. f.type = "Data" => IsCopy(d, f) /\ f.seq = d.last
    BY <2>2, <2>3 DEF Sends, IsCopy
  <2> HIDE DEF k2, p2
  <2>5. Expects(n, e, k2, p2)
    <3>1. CASE e.frames = d.frames
      BY <1>1, <1>4, <1>8, <2>1, <3>1, ExpectsStays
    <3>2. CASE e.frames = Append(d.frames, f)
      <4>1. f.type = "Data" => /\ IsCopy(d, f)
              /\ \A i \in DOMAIN d.frames :
                   d.frames[i].type = "Data" => d.frames[i].seq = d.last
        BY <2>2, <2>4
      <4> QED
        BY <1>1, <1>4, <1>8, <2>1, <3>2, <4>1, ExpectsMore
    <3> QED
      BY <1>7, <3>1, <3>2
  <2>6. \A i \in DOMAIN e.frames : e.frames[i].type = "Data" => e.frames[i].seq = e.last
    BY <1>4, <1>6, <1>7, <2>2, <2>4 DEF SameReceiver
  <2>7. e.flying
    BY <1>10 DEF Taken, Sends
  <2>8. e.seq = e.last /\ e.consumed = Fragment(n, HeadNumber(e), HeadPos(e))
    BY <1>2, <1>4, <2>2 DEF SameReceiver
  <2>9. \A i, j \in DOMAIN e.acks : j > i /\ e.acks[i].ack = e.seq => e.acks[j].ack = e.seq
    BY <1>4, <1>10 DEF Taken
  <2> QED
    BY <1>2, <2>5, <2>6, <2>7, <2>8, <2>9 DEF Taken, Synchronised, k2, p2
<1> QED
  BY <1>9, <1>10 DEF Synchronised

(* The same sender, and more of the packets written or cut. *)
LEMMA SameQueue ==
  ASSUME NEW n \in Nodes, NEW d \in Directions, NEW e \in Directions, QueueOK(n, d),
         HistoryOK(n, d), SameSender(d, e), e.out = d.out, e.delivered = d.delivered,
         d.cut \subseteq e.cut
  PROVE  /\ QueueOK(n, e) /\ HistoryOK(n, e)
         /\ HeadNumber(e) = HeadNumber(d) /\ HeadPos(e) = HeadPos(d)
<1>1. HeadNumber(e) = HeadNumber(d) /\ HeadPos(e) = HeadPos(d)
  BY DEF SameSender, HeadNumber, HeadPos
<1> QED
  BY <1>1, HistoryStays DEF SameSender, QueueOK

(* An ACK under way is of the last fragment consumed, whichever it is. *)
LEMMA AnswerDirection ==
  ASSUME NEW n \in Nodes, NEW d \in Directions, NEW e \in Directions, QueueOK(n, d),
         HistoryOK(n, d), NEW f \in Frame, Answers(d, e, f)
  PROVE  /\ QueueOK(n, e) /\ HistoryOK(n, e)
         /\ \A k, p : Expects(n, d, k, p) => Expects(n, e, k, p)
         /\ Synchronised(n, d) => Synchronised(n, e)
<1>1. /\ SameSender(d, e) /\ SameReceiver(d, e) /\ e.frames = d.frames /\ e.cut = d.cut
      /\ f.ack = d.last /\ (e.acks = d.acks \/ e.acks = Append(d.acks, f))
  BY DEF Answers
<1>2. /\ QueueOK(n, e) /\ HistoryOK(n, e)
      /\ HeadNumber(e) = HeadNumber(d) /\ HeadPos(e) = HeadPos(d)
  BY <1>1, SameQueue DEF SameReceiver
<1>3. ASSUME NEW k, NEW p, Expects(n, d, k, p) PROVE Expects(n, e, k, p)
  <2>1. /\ HeadNumber(d) \in Nat /\ HeadNumber(e) \in Nat /\ HeadNumber(d) <= HeadNumber(e)
        /\ d.read <= e.read
    <3>1. HeadNumber(d) \in Nat
      BY HeadPlace
    <3>2. d.read \in Nat /\ e.read = d.read
      BY <1>1 DEF SameSender, Directions
    <3> QED
      BY <1>2, <3>1, <3>2
  <2> QED
    BY <1>1, <1>3, <2>1, ExpectsStays
<1>4. d.acks \in Seq(Frame)
  BY DEF Directions
<1>5. e.acks = Append(d.acks, f) =>
        \A i \in DOMAIN e.acks :
          \/ i \in DOMAIN d.acks /\ e.acks[i] = d.acks[i]
          \/ e.acks[i] = f /\ \A j \in DOMAIN e.acks : ~(j > i)
  BY <1>4, AppendFrame
<1>6. Due(n, d) => Due(n, e)
  <2> HAVE Due(n, d)
  <2>1. \A i \in DOMAIN e.acks : e.acks[i].ack = e.last
    BY <1>1, <1>5 DEF Due, SameReceiver
  <2> QED
    BY <1>1, <1>2, <1>3, <2>1 DEF Due, SameSender, SameReceiver
<1>7. Taken(n, d) => Taken(n, e)
  <2> HAVE Taken(n, d)
  <2>1. \A i, j \in DOMAIN e.acks : j > i /\ e.acks[i].ack = e.seq => e.acks[j].ack = e.seq
    BY <1>1, <1>5 DEF Taken, SameSender, SameReceiver
  <2> QED
    BY <1>1, <1>2, <1>3, <2>1 DEF Taken, SameSender, SameReceiver
<1> QED
  BY <1>2, <1>3, <1>6, <1>7 DEF Synchronised
-----------------------------------------------------------------------------
(* What is received.                                                       *)

(* The frame taken leaves the receiver as it is: no DATA, or a copy of the *)
(* fragment consumed last.                                                 *)
Passes(d, e) ==
  /\ d.frames # <<>>
  /\ e.frames = Tail(d.frames)
  /\ SameSender(d, e)
  /\ SameReceiver(d, e)
  /\ e.acks = d.acks /\ e.cut = d.cut

(* It is the fragment at the place <<k, p>>, the one expected. *)
TakesFresh(n, d, e, k, p) ==
  /\ Receives(d, e)
  /\ d.frames[1].type = "Data"
  /\ IsFresh(n, d, d.frames[1], k, p)
  /\ \A j \in DOMAIN d.frames :
       j > 1 /\ d.frames[j].type = "Data" => d.frames[j].seq = NextSeq(d.last)

(* No frame is ever refused. *)
LEMMA ReceiveCases ==
  ASSUME NEW n \in Nodes, NEW d \in Directions, NEW e, NEW k, NEW p,
         Expects(n, d, k, p), Receives(d, e)
  PROVE  Passes(d, e) \/ TakesFresh(n, d, e, k, p)
<1> DEFINE f == d.frames[1]
<1>1. d.frames \in Seq(Frame) /\ d.frames # <<>>
  BY DEF Directions, Receives
<1>2. 1 \in DOMAIN d.frames
  BY <1>1, TailFrame
<1>3. f.type = "Data" =>
        \/ IsCopy(d, f)
        \/ /\ IsFresh(n, d, f, k, p)
           /\ \A j \in DOMAIN d.frames :
                j > 1 /\ d.frames[j].type = "Data" => d.frames[j].seq = NextSeq(d.last)
  BY <1>2 DEF Expects
<1>4. CASE f.type # "Data" \/ IsCopy(d, f)
  BY <1>4 DEF Receives, Passes, IsCopy
<1>5. CASE f.type = "Data" /\ ~IsCopy(d, f)
  BY <1>3, <1>5 DEF TakesFresh
<1> QED
  BY <1>4, <1>5

LEMMA PassDirection ==
  ASSUME NEW n \in Nodes, NEW d \in Directions, NEW e \in Directions, QueueOK(n, d),
         HistoryOK(n, d), Passes(d, e)
  PROVE  /\ QueueOK(n, e) /\ HistoryOK(n, e)
         /\ \A k, p : Expects(n, d, k, p) => Expects(n, e, k, p)
         /\ Synchronised(n, d) => Synchronised(n, e)
<1>1. /\ SameSender(d, e) /\ SameReceiver(d, e) /\ e.acks = d.acks /\ e.cut = d.cut
      /\ d.frames \in Seq(Frame) /\ d.frames # <<>>
  BY DEF Passes, Directions
<1>2. /\ QueueOK(n, e) /\ HistoryOK(n, e)
      /\ HeadNumber(e) = HeadNumber(d) /\ HeadPos(e) = HeadPos(d)
  BY <1>1, SameQueue DEF SameReceiver
<1>3. \A i \in DOMAIN e.frames :
        /\ i \in Nat /\ i + 1 \in DOMAIN d.frames
        /\ e.frames[i] = d.frames[i + 1]
  BY <1>1, TailFrame DEF Passes
<1>4. ASSUME NEW k, NEW p, Expects(n, d, k, p) PROVE Expects(n, e, k, p)
  <2>1. Assembled(n, e, k, p)
    BY <1>1, <1>4, AssembledStays DEF Expects
  <2>2. \A f : /\ IsFresh(n, d, f, k, p) => IsFresh(n, e, f, k, p)
               /\ IsCopy(d, f) => IsCopy(e, f)
    BY <1>1, <1>2 DEF IsFresh, IsCopy, SameReceiver, SameSender
  <2>3. ASSUME NEW i \in DOMAIN e.frames, e.frames[i].type = "Data"
        PROVE  \/ IsCopy(e, e.frames[i])
               \/ /\ IsFresh(n, e, e.frames[i], k, p)
                  /\ \A j \in DOMAIN e.frames : j > i /\ e.frames[j].type = "Data"
                                                  => e.frames[j].seq = NextSeq(e.last)
    <3>1. i \in Nat /\ i + 1 \in DOMAIN d.frames /\ e.frames[i] = d.frames[i + 1]
      BY <1>3
    <3>2. \/ IsCopy(d, d.frames[i + 1])
          \/ /\ IsFresh(n, d, d.frames[i + 1], k, p)
             /\ \A j \in DOMAIN d.frames :
                  j > i + 1 /\ d.frames[j].type = "Data" => d.frames[j].seq = NextSeq(d.last)
      BY <1>4, <2>3, <3>1 DEF Expects
    <3>3. CASE IsCopy(d, d.frames[i + 1])
      BY <2>2, <3>1, <3>3
    <3>4. CASE /\ IsFresh(n, d, d.frames[i + 1], k, p)
               /\ \A j \in DOMAIN d.frames :
                    j > i + 1 /\ d.frames[j].type = "Data"
                      => d.frames[j].seq = NextSeq(d.last)
      <4>1. ASSUME NEW j \in DOMAIN e.frames, j > i, e.frames[j].type = "Data"
            PROVE  e.frames[j].seq = NextSeq(e.last)
        <5>1. /\ j \in Nat /\ j + 1 \in DOMAIN d.frames
              /\ e.frames[j] = d.frames[j + 1]
          BY <1>3
        <5>2. j + 1 > i + 1
          BY <3>1, <4>1, <5>1
        <5>3. d.frames[j + 1].seq = NextSeq(d.last)
          BY <3>4, <4>1, <5>1, <5>2
        <5> QED
          BY <1>1, <5>1, <5>3 DEF SameReceiver
      <4> QED
        BY <2>2, <3>1, <3>4, <4>1
    <3> QED
      BY <3>2, <3>3, <3>4
  <2> QED
    BY <2>1, <2>3 DEF Expects
<1>5. Due(n, d) => Due(n, e)
  <2> HAVE Due(n, d)
  <2>1. \A i \in DOMAIN e.frames :
          e.frames[i].type = "Data" /\ e.frames[i].seq = e.seq => e.flying
    BY <1>1, <1>3 DEF Due, SameSender
  <2> QED
    BY <1>1, <1>2, <1>4, <2>1 DEF Due, SameSender, SameReceiver
<1>6. Taken(n, d) => Taken(n, e)
  <2> HAVE Taken(n, d)
  <2>1. \A i \in DOMAIN e.frames : e.frames[i].type = "Data" => e.frames[i].seq = e.last
    BY <1>1, <1>3 DEF Taken, SameReceiver
  <2> QED
    BY <1>1, <1>2, <1>4, <2>1 DEF Taken, SameSender, SameReceiver
<1> QED
  BY <1>2, <1>4, <1>5, <1>6 DEF Synchronised
-----------------------------------------------------------------------------
(* The fragment that is expected.                                          *)

(* The place that the receiver is at. *)
LEMMA ExpectedPlace ==
  ASSUME NEW n \in Nodes, NEW d, NEW k, NEW p, Assembled(n, d, k, p)
  PROVE  /\ k \in Nat \ {0} /\ k <= Len(Traffic[n]) + 1
         /\ p \in Nat \ {0} /\ p <= Length(n, k)
<1>1. k \in 1..(Len(Traffic[n]) + 1) /\ p \in 1..Length(n, k)
  BY DEF Assembled
<1>2. Len(Traffic[n]) \in Nat
  BY TrafficType
<1>3. Length(n, k) \in Nat
  BY LengthType
<1> QED
  BY <1>1, <1>2, <1>3

(* What write() is given is the whole k-th packet; the last fragment of a  *)
(* packet is not written only when a reset cut the beginning off.          *)
LEMMA JoinedFragment ==
  ASSUME NEW n \in Nodes, NEW d \in Directions, NEW k, NEW p, NEW f,
         Assembled(n, d, k, p), IsFresh(n, d, f, k, p), k \in 1..Len(Traffic[n])
  PROVE  /\ CompletesPacket(f) <=> IsLast(n, k, p)
         /\ Writes(d, f) => /\ IsLast(n, k, p)
                            /\ Joined(d, f) = Packet(n, k)
                            /\ PacketNumber(Joined(d, f)) = k
         /\ IsLast(n, k, p) /\ ~Writes(d, f) => k \in d.cut /\ d.out = <<>>
         /\ \E s \in 1..p : /\ Joined(d, f) = Piece(n, k, s, End(n, k, p))
                            /\ s > 1 => k \in d.cut /\ d.out = <<>>
<1>1. k \in Nat /\ p \in Nat \ {0} /\ p <= Length(n, k)
  BY ExpectedPlace
<1>2. CompletesPacket(f) <=> IsLast(n, k, p)
  <2>1. f.payload = Fragment(n, k, p) /\ f.arg = Least(Length(n, k) - p + 1, Uint8Max)
    BY DEF IsFresh
  <2> QED
    BY <1>1, <2>1, CompletesLast
<1>3. PICK s \in 1..p : /\ d.buffer = Piece(n, k, s, p - 1)
                        /\ s > 1 => k \in d.cut /\ d.out = <<>>
  BY DEF Assembled
<1>4. s \in Nat \ {0} /\ s <= p /\ s <= Length(n, k)
  BY <1>1, LengthType
<1>5. Joined(d, f) = Piece(n, k, s, End(n, k, p))
  <2>1. Piece(n, k, s, p - 1) \o Fragment(n, k, p) = Piece(n, k, s, End(n, k, p))
    BY <1>1, <1>4, JoinFragment
  <2> QED
    BY <1>3, <2>1 DEF Joined, IsFresh
<1>6. IsLast(n, k, p) => Joined(d, f) = Piece(n, k, s, Length(n, k))
  BY <1>5 DEF IsLast
<1>7. IsValidIpPacket(Piece(n, k, s, Length(n, k))) <=> s = 1
  BY <1>1, <1>4, ValidPiece
<1>8. Packet(n, k) = Piece(n, k, 1, Length(n, k)) /\ PacketNumber(Packet(n, k)) = k
  BY WholePiece
<1>9. Writes(d, f) <=> IsLast(n, k, p) /\ s = 1
  BY <1>2, <1>6, <1>7 DEF Writes
<1> QED
  BY <1>2, <1>3, <1>4, <1>5, <1>6, <1>8, <1>9

(* What taking it changes. *)
LEMMA FreshReceived ==
  ASSUME NEW n \in Nodes, NEW d \in Directions, NEW e \in Directions, NEW k, NEW p,
         QueueOK(n, d), Expects(n, d, k, p), TakesFresh(n, d, e, k, p)
  PROVE  LET f == d.frames[1]
         IN  /\ k \in 1..Len(Traffic[n]) /\ k <= HeadNumber(d) /\ k <= d.read
             /\ e.last = NextSeq(d.last) /\ e.last # d.last /\ e.last # NoSeq
             /\ e.consumed = Fragment(n, k, p)
             /\ e.buffer = IF IsLast(n, k, p) THEN <<>> ELSE Joined(d, f)
             /\ IF Writes(d, f)
                THEN /\ e.out = Append(d.out, Packet(n, k))
                     /\ \/ e.delivered = d.delivered \cup {k} /\ e.cut = d.cut
                        \/ e.delivered = d.delivered /\ e.cut = d.cut \cup {k}
                ELSE e.out = d.out /\ e.delivered = d.delivered /\ e.cut = d.cut
<1> DEFINE f == d.frames[1]
<1>1. Assembled(n, d, k, p) /\ IsFresh(n, d, f, k, p)
  BY DEF Expects, TakesFresh
<1>2. k <= HeadNumber(d) /\ k <= d.read
  BY <1>1 DEF IsFresh
<1>3. k \in 1..Len(Traffic[n])
  <2>1. k \in Nat \ {0}
    BY <1>1, ExpectedPlace
  <2>2. d.read <= Len(Traffic[n]) /\ d.read \in Nat /\ Len(Traffic[n]) \in Nat
    BY TrafficType DEF QueueOK, Directions
  <2> QED
    BY <1>2, <2>1, <2>2
<1>4. f.seq = NextSeq(d.last) /\ f.payload = Fragment(n, k, p)
  BY <1>1 DEF IsFresh
<1>5. NextSeq(d.last) # d.last /\ NextSeq(d.last) # NoSeq
  BY NextSeqMoves DEF Directions
<1>6. /\ CompletesPacket(f) <=> IsLast(n, k, p)
      /\ Writes(d, f) => Joined(d, f) = Packet(n, k) /\ PacketNumber(Joined(d, f)) = k
  BY <1>1, <1>3, JoinedFragment
<1>7. /\ e.last = f.seq
      /\ e.consumed = f.payload
      /\ e.buffer = IF CompletesPacket(f) THEN <<>> ELSE Joined(d, f)
      /\ IF Writes(d, f)
         THEN /\ e.out = Append(d.out, Joined(d, f))
              /\ LET j == PacketNumber(Joined(d, f))
                 IN  \/ e.delivered = d.delivered \cup {j} /\ e.cut = d.cut
                     \/ e.delivered = d.delivered /\ e.cut = d.cut \cup {j}
         ELSE e.out = d.out /\ e.delivered = d.delivered /\ e.cut = d.cut
  BY <1>4, <1>5 DEF TakesFresh, Receives
<1> QED
  BY <1>2, <1>3, <1>4, <1>5, <1>6, <1>7

(* The receiver is then at the next place. *)
LEMMA FreshAssembled ==
  ASSUME NEW n \in Nodes, NEW d \in Directions, NEW e \in Directions, NEW k, NEW p,
         QueueOK(n, d), Expects(n, d, k, p), TakesFresh(n, d, e, k, p)
  PROVE  Assembled(n, e, NextNumber(n, k, p), NextPos(n, k, p))
<1> DEFINE f == d.frames[1]
           b == End(n, k, p)
<1>1. Assembled(n, d, k, p) /\ IsFresh(n, d, f, k, p)
  BY DEF Expects, TakesFresh
<1>2. k \in Nat \ {0} /\ p \in Nat \ {0} /\ p <= Length(n, k)
  BY <1>1, ExpectedPlace
<1>3. k \in 1..Len(Traffic[n])
  BY FreshReceived
<1>4. /\ e.buffer = IF IsLast(n, k, p) THEN <<>> ELSE Joined(d, f)
      /\ IF Writes(d, f)
         THEN /\ e.out = Append(d.out, Packet(n, k))
              /\ \/ e.delivered = d.delivered \cup {k} /\ e.cut = d.cut
                 \/ e.delivered = d.delivered /\ e.cut = d.cut \cup {k}
         ELSE e.out = d.out /\ e.delivered = d.delivered /\ e.cut = d.cut
  BY FreshReceived
<1>5. d.delivered \subseteq e.delivered /\ d.cut \subseteq e.cut
  BY <1>4
<1>6. \A j \in 1..(k - 1) : Done(e, j)
  BY <1>1, <1>5 DEF Assembled, Done
<1>7. \A j \in e.delivered : j <= k
  BY <1>1, <1>2, <1>4 DEF Assembled
<1>8. /\ Writes(d, f) => IsLast(n, k, p) /\ PacketNumber(Packet(n, k)) = k
      /\ IsLast(n, k, p) /\ ~Writes(d, f) => k \in d.cut /\ d.out = <<>>
  BY <1>1, <1>3, JoinedFragment
<1>9. d.out \in Seq(Seq(Byte)) /\ Packet(n, k) \in Seq(Byte)
  BY <1>3, PacketType DEF Directions, QueuedPacket
<1>10. Len(Traffic[n]) \in Nat
  BY TrafficType
<1>11. CASE IsLast(n, k, p)
  <2>1. NextNumber(n, k, p) = k + 1 /\ NextPos(n, k, p) = 1
    BY <1>11 DEF NextNumber, NextPos
  <2>2. k + 1 \in 1..(Len(Traffic[n]) + 1)
    BY <1>3, <1>10
  <2>3. 1 \in 1..Length(n, k + 1)
    BY LengthType
  <2>4. e.buffer = Piece(n, k + 1, 1, 1 - 1)
    <3>1. Piece(n, k + 1, 1, 0) = <<>>
      BY <1>2, EmptyPiece
    <3> QED
      BY <1>4, <1>11, <3>1
  <2>5. e.out # <<>> => PacketNumber(e.out[Len(e.out)]) = (k + 1) - 1
    <3>1. CASE Writes(d, f)
      <4>1. e.out[Len(e.out)] = Packet(n, k)
        BY <1>4, <1>9, <3>1, AppendProperties
      <4>2. PacketNumber(Packet(n, k)) = k
        BY <1>8, <3>1
      <4> QED
        BY <1>2, <4>1, <4>2
    <3>2. CASE ~Writes(d, f)
      BY <1>4, <1>8, <1>11, <3>2
    <3> QED
      BY <3>1, <3>2
  <2>6. Done(e, k)
    BY <1>4, <1>8, <1>11 DEF Done
  <2>7. \A j \in 1..((k + 1) - 1) : Done(e, j)
    <3>1. \A j \in 1..((k + 1) - 1) : j \in 1..(k - 1) \/ j = k
      BY <1>2
    <3> QED
      BY <1>6, <2>6, <3>1
  <2>8. \A j \in e.delivered : j <= k + 1
    BY <1>2, <1>7 DEF Directions
  <2> QED
    BY <2>1, <2>2, <2>3, <2>4, <2>5, <2>7, <2>8 DEF Assembled
<1>12. CASE ~IsLast(n, k, p)
  <2>1. NextNumber(n, k, p) = k /\ NextPos(n, k, p) = b + 1
    BY <1>12 DEF NextNumber, NextPos
  <2>2. k \in 1..(Len(Traffic[n]) + 1)
    BY <1>3, <1>10
  <2>3. b \in Nat /\ p <= b
    BY <1>2, EndType
  <2>4. b + 1 \in 1..Length(n, k)
    <3>1. NextPos(n, k, p) \in Nat \ {0} /\ NextPos(n, k, p) <= Length(n, k)
      BY <1>2, <2>1, NextPlace
    <3>2. Length(n, k) \in Nat
      BY LengthType
    <3> HIDE DEF b
    <3> QED
      BY <2>1, <2>3, <3>1, <3>2
  <2>5. e.out = d.out /\ e.buffer = Joined(d, f) /\ e.cut = d.cut
    BY <1>4, <1>8, <1>12
  <2>6. PICK s \in 1..p : /\ Joined(d, f) = Piece(n, k, s, b)
                          /\ s > 1 => k \in d.cut /\ d.out = <<>>
    BY <1>1, <1>3, JoinedFragment
  <2> HIDE DEF b
  <2>7. s \in 1..(b + 1) /\ (b + 1) - 1 = b
    BY <1>2, <2>3
  <2>8. e.buffer = Piece(n, k, s, (b + 1) - 1)
    BY <2>5, <2>6, <2>7
  <2>9. e.out # <<>> => PacketNumber(e.out[Len(e.out)]) = k - 1
    BY <1>1, <2>5 DEF Assembled
  <2> QED
    BY <1>6, <1>7, <2>1, <2>2, <2>4, <2>5, <2>6, <2>7, <2>8, <2>9 DEF Assembled
<1> QED
  BY <1>11, <1>12

(* All DATA frames still under way are then copies of it. *)
LEMMA FreshExpects ==
  ASSUME NEW n \in Nodes, NEW d \in Directions, NEW e \in Directions, NEW k, NEW p,
         QueueOK(n, d), Expects(n, d, k, p), TakesFresh(n, d, e, k, p)
  PROVE  /\ Expects(n, e, NextNumber(n, k, p), NextPos(n, k, p))
         /\ \A i \in DOMAIN e.frames : e.frames[i].type = "Data" => e.frames[i].seq = e.last
<1>1. d.frames \in Seq(Frame) /\ d.frames # <<>> /\ e.frames = Tail(d.frames)
  BY DEF Directions, TakesFresh, Receives
<1>2. /\ e.last = NextSeq(d.last) /\ e.last # d.last /\ e.last # NoSeq
      /\ e.consumed = Fragment(n, k, p)
  BY FreshReceived
<1>3. ASSUME NEW i \in DOMAIN e.frames, e.frames[i].type = "Data"
      PROVE  IsCopy(e, e.frames[i]) /\ e.frames[i].seq = e.last
  <2>1. /\ i + 1 \in DOMAIN d.frames /\ i + 1 > 1
        /\ e.frames[i] = d.frames[i + 1]
    BY <1>1, TailFrame
  <2>2. e.frames[i].seq = NextSeq(d.last)
    BY <1>3, <2>1 DEF TakesFresh
  <2>3. IsCopy(d, e.frames[i]) \/ IsFresh(n, d, e.frames[i], k, p)
    BY <1>3, <2>1 DEF Expects
  <2>4. e.frames[i].payload = Fragment(n, k, p)
    BY <1>2, <2>2, <2>3 DEF IsCopy, IsFresh
  <2> QED
    BY <1>2, <2>2, <2>4 DEF IsCopy
<1> QED
  BY <1>3, FreshAssembled DEF Expects

LEMMA FreshHistory ==
  ASSUME NEW n \in Nodes, NEW d \in Directions, NEW e \in Directions, NEW k, NEW p,
         QueueOK(n, d), HistoryOK(n, d), Expects(n, d, k, p), TakesFresh(n, d, e, k, p)
  PROVE  /\ QueueOK(n, e) /\ HistoryOK(n, e)
         /\ HeadNumber(e) = HeadNumber(d) /\ HeadPos(e) = HeadPos(d)
<1> DEFINE f == d.frames[1]
<1>1. SameSender(d, e)
  BY DEF TakesFresh, Receives
<1>2. HeadNumber(e) = HeadNumber(d) /\ HeadPos(e) = HeadPos(d)
  BY <1>1 DEF SameSender, HeadNumber, HeadPos
<1>3. QueueOK(n, e)
  BY <1>1, <1>2 DEF SameSender, QueueOK
<1>4. Assembled(n, d, k, p) /\ k \in 1..Len(Traffic[n]) /\ k <= HeadNumber(d)
  BY FreshReceived DEF Expects
<1>5. IF Writes(d, f)
      THEN /\ e.out = Append(d.out, Packet(n, k))
           /\ \/ e.delivered = d.delivered \cup {k} /\ e.cut = d.cut
              \/ e.delivered = d.delivered /\ e.cut = d.cut \cup {k}
      ELSE e.out = d.out /\ e.delivered = d.delivered /\ e.cut = d.cut
  BY FreshReceived
<1>6. CASE ~Writes(d, f)
  BY <1>2, <1>3, <1>5, <1>6, HistoryStays
<1>7. CASE Writes(d, f)
  <2>1. \A j \in 1..(HeadNumber(e) - 1) : Done(e, j)
    BY <1>2, <1>5, <1>7 DEF HistoryOK, Done
  <2>2. \A j \in e.delivered : j <= HeadNumber(e)
    BY <1>2, <1>4, <1>5, <1>7 DEF HistoryOK
  <2>3. d.out \in Seq(Seq(Byte)) /\ Packet(n, k) \in Seq(Byte)
    BY <1>4, PacketType DEF Directions, QueuedPacket
  <2>4. /\ DOMAIN d.out = 1..Len(d.out) /\ Len(d.out) \in Nat
        /\ DOMAIN e.out = 1..Len(e.out)
        /\ Len(e.out) = Len(d.out) + 1
        /\ \A i \in 1..Len(d.out) : e.out[i] = d.out[i]
        /\ e.out[Len(d.out) + 1] = Packet(n, k)
    <3>1. e.out = Append(d.out, Packet(n, k))
      BY <1>5, <1>7
    <3>2. DOMAIN d.out = 1..Len(d.out) /\ Len(d.out) \in Nat
      BY <2>3, LenProperties
    <3>3. /\ Append(d.out, Packet(n, k)) \in Seq(Seq(Byte))
          /\ Len(Append(d.out, Packet(n, k))) = Len(d.out) + 1
          /\ \A i \in 1..Len(d.out) : Append(d.out, Packet(n, k))[i] = d.out[i]
          /\ Append(d.out, Packet(n, k))[Len(d.out) + 1] = Packet(n, k)
      BY <2>3, AppendProperties
    <3>4. DOMAIN Append(d.out, Packet(n, k)) = 1..Len(Append(d.out, Packet(n, k)))
      BY <3>3, LenProperties
    <3> QED
      BY <3>1, <3>2, <3>3, <3>4
  <2>5. PacketNumber(Packet(n, k)) = k
    BY <1>4, WholePiece
  <2>6. \A i \in DOMAIN e.out : e.out[i] = Packet(n, PacketNumber(e.out[i]))
    <3> TAKE i \in DOMAIN e.out
    <3>1. i \in DOMAIN d.out \/ i = Len(d.out) + 1
      BY <2>4
    <3>2. CASE i \in DOMAIN d.out
      BY <2>4, <3>2 DEF HistoryOK
    <3>3. CASE i = Len(d.out) + 1
      BY <2>4, <2>5, <3>3
    <3> QED
      BY <3>1, <3>2, <3>3
  <2>7. \A i \in 1..(Len(e.out) - 1) :
          PacketNumber(e.out[i + 1]) = PacketNumber(e.out[i]) + 1
    <3> TAKE i \in 1..(Len(e.out) - 1)
    <3>1. CASE i = Len(d.out)
      <4>1. e.out[i] = d.out[Len(d.out)] /\ e.out[i + 1] = Packet(n, k)
        BY <2>4, <3>1
      <4>2. d.out # <<>>
        BY <2>3, <2>4, <3>1, EmptySeq
      <4>3. PacketNumber(d.out[Len(d.out)]) = k - 1
        BY <1>4, <4>2 DEF Assembled
      <4>4. (k - 1) + 1 = k
        BY <1>4
      <4> QED
        BY <2>5, <4>1, <4>3, <4>4
    <3>2. CASE i # Len(d.out)
      <4>1. /\ i \in 1..(Len(d.out) - 1) /\ i \in 1..Len(d.out)
            /\ i + 1 \in 1..Len(d.out)
        BY <2>4, <3>2
      <4>2. e.out[i] = d.out[i] /\ e.out[i + 1] = d.out[i + 1]
        BY <2>4, <4>1
      <4> QED
        BY <4>1, <4>2 DEF HistoryOK
    <3> QED
      BY <3>1, <3>2
  <2> QED
    BY <1>2, <1>3, <2>1, <2>2, <2>6, <2>7 DEF HistoryOK
<1> QED
  BY <1>6, <1>7

(* The step of the receiver, as a whole. *)
LEMMA ReceiveDirection ==
  ASSUME NEW n \in Nodes, NEW d \in Directions, NEW e \in Directions, NEW k, NEW p,
         QueueOK(n, d), HistoryOK(n, d), Expects(n, d, k, p), Receives(d, e)
  PROVE  /\ QueueOK(n, e) /\ HistoryOK(n, e)
         /\ \E k2 \in 1..(Len(Traffic[n]) + 1) : \E p2 \in 1..Length(n, k2) :
              Expects(n, e, k2, p2)
<1>1. CASE Passes(d, e)
  <2>1. k \in 1..(Len(Traffic[n]) + 1) /\ p \in 1..Length(n, k)
    BY DEF Expects, Assembled
  <2>2. QueueOK(n, e) /\ HistoryOK(n, e) /\ Expects(n, e, k, p)
    BY <1>1, PassDirection
  <2> QED
    BY <2>1, <2>2
<1>2. CASE TakesFresh(n, d, e, k, p)
  <2> DEFINE k2 == NextNumber(n, k, p)
             p2 == NextPos(n, k, p)
  <2>1. Expects(n, e, k2, p2)
    BY <1>2, FreshExpects
  <2> HIDE DEF k2, p2
  <2>2. k2 \in 1..(Len(Traffic[n]) + 1) /\ p2 \in 1..Length(n, k2)
    BY <2>1 DEF Expects, Assembled
  <2> QED
    BY <1>2, <2>1, <2>2, FreshHistory
<1> QED
  BY <1>1, <1>2, ReceiveCases

(* A direction that was due is taken once the head fragment has arrived.   *)
LEMMA ReceiveSynchronised ==
  ASSUME NEW n \in Nodes, NEW d \in Directions, NEW e \in Directions,
         QueueOK(n, d), HistoryOK(n, d), Synchronised(n, d), Receives(d, e)
  PROVE  Synchronised(n, e)
<1> DEFINE k == HeadNumber(d)
           p == HeadPos(d)
<1>1. SameSender(d, e) /\ e.acks = d.acks
  BY DEF Receives
<1>2. HeadNumber(e) = k /\ HeadPos(e) = p
  BY <1>1 DEF SameSender, HeadNumber, HeadPos
<1>3. d.frames \in Seq(Frame) /\ d.frames # <<>> /\ 1 \in DOMAIN d.frames
  BY TailFrame DEF Directions, Receives
<1>4. NextSeq(d.last) # d.last
  BY NextSeqMoves DEF Directions
<1>5. CASE Due(n, d)
  <2>1. Expects(n, d, k, p)
    BY <1>5 DEF Due
  <2>2. CASE Passes(d, e)
    BY <1>5, <2>2, PassDirection DEF Synchronised
  <2>3. CASE TakesFresh(n, d, e, k, p)
    <3>1. e.flying
      BY <1>1, <1>3, <1>5, <2>3 DEF Due, TakesFresh, IsFresh, SameSender
    <3>2. e.last = NextSeq(d.last) /\ e.consumed = Fragment(n, k, p)
      BY <2>1, <2>3, FreshReceived
    <3>3. e.seq = e.last /\ e.seq # d.last
      BY <1>1, <1>4, <1>5, <3>2 DEF Due, SameSender
    <3>4. /\ Expects(n, e, NextNumber(n, k, p), NextPos(n, k, p))
          /\ \A i \in DOMAIN e.frames :
               e.frames[i].type = "Data" => e.frames[i].seq = e.last
      BY <2>1, <2>3, FreshExpects
    <3>5. \A i \in DOMAIN e.acks : e.acks[i].ack # e.seq
      BY <1>1, <1>5, <3>3 DEF Due
    <3> QED
      BY <1>2, <3>1, <3>2, <3>3, <3>4, <3>5 DEF Taken, Synchronised
  <2> QED
    BY <2>1, <2>2, <2>3, ReceiveCases
<1>6. CASE Taken(n, d)
  <2> DEFINE k2 == NextNumber(n, k, p)
             p2 == NextPos(n, k, p)
  <2>1. Expects(n, d, k2, p2)
    BY <1>6 DEF Taken
  <2>2. ~TakesFresh(n, d, e, k2, p2)
    BY <1>3, <1>4, <1>6 DEF Taken, TakesFresh, IsFresh
  <2> HIDE DEF k2, p2
  <2>3. Passes(d, e)
    BY <2>1, <2>2, ReceiveCases
  <2> QED
    BY <1>6, <2>3, PassDirection DEF Synchronised
<1> QED
  BY <1>5, <1>6 DEF Synchronised
-----------------------------------------------------------------------------
(* What is acknowledged.                                                   *)

(* The oldest frame does not acknowledge the fragment in flight. *)
Ignores(d, e) ==
  /\ d.acks # <<>>
  /\ e.acks = Tail(d.acks)
  /\ SameSender(d, e) /\ SameReceiver(d, e)
  /\ e.frames = d.frames /\ e.cut = d.cut

LEMMA CommitCases ==
  ASSUME NEW n, NEW d, NEW e, Commits(n, d, e)
  PROVE  Ignores(d, e) \/ (d.flying /\ d.acks[1].ack = d.seq)
BY DEF Commits, Ignores, SameSender

LEMMA TailAcks ==
  ASSUME NEW d \in Directions, NEW e, d.acks # <<>>, e.acks = Tail(d.acks)
  PROVE  /\ 1 \in DOMAIN d.acks
         /\ \A i \in DOMAIN e.acks : /\ i \in Nat
                                     /\ i + 1 \in DOMAIN d.acks /\ i + 1 > 1
                                     /\ e.acks[i] = d.acks[i + 1]
<1>1. d.acks \in Seq(Frame)
  BY DEF Directions
<1> QED
  BY <1>1, TailFrame

LEMMA IgnoreDirection ==
  ASSUME NEW n \in Nodes, NEW d \in Directions, NEW e \in Directions, QueueOK(n, d),
         HistoryOK(n, d), Ignores(d, e)
  PROVE  /\ QueueOK(n, e) /\ HistoryOK(n, e)
         /\ Synchronised(n, d) => Synchronised(n, e)
         /\ AcksAreTrue(n, d) => AcksAreTrue(n, e)
<1>1. /\ SameSender(d, e) /\ SameReceiver(d, e) /\ e.frames = d.frames /\ e.cut = d.cut
      /\ d.acks # <<>> /\ e.acks = Tail(d.acks)
  BY DEF Ignores
<1>2. /\ QueueOK(n, e) /\ HistoryOK(n, e)
      /\ HeadNumber(e) = HeadNumber(d) /\ HeadPos(e) = HeadPos(d)
  BY <1>1, SameQueue DEF SameReceiver
<1>3. ASSUME NEW k, NEW p, Expects(n, d, k, p) PROVE Expects(n, e, k, p)
  <2>1. HeadNumber(d) \in Nat
    BY HeadPlace
  <2>2. d.read \in Nat /\ e.read = d.read
    BY <1>1 DEF SameSender, Directions
  <2>3. HeadNumber(e) \in Nat /\ HeadNumber(d) <= HeadNumber(e) /\ d.read <= e.read
    BY <1>2, <2>1, <2>2
  <2> QED
    BY <1>1, <1>3, <2>1, <2>3, ExpectsStays
<1>4. \A i \in DOMAIN e.acks : /\ i \in Nat /\ i + 1 \in DOMAIN d.acks
                               /\ e.acks[i] = d.acks[i + 1]
  BY <1>1, TailAcks
<1>5. Due(n, d) => Due(n, e)
  <2> HAVE Due(n, d)
  <2>1. \A i \in DOMAIN e.acks : e.acks[i].ack = e.last
    BY <1>1, <1>4 DEF Due, SameReceiver
  <2> QED
    BY <1>1, <1>2, <1>3, <2>1 DEF Due, SameSender, SameReceiver
<1>6. ASSUME \A i, j \in DOMAIN d.acks : j > i /\ d.acks[i].ack = d.seq => d.acks[j].ack = d.seq
      PROVE  \A i, j \in DOMAIN e.acks : j > i /\ e.acks[i].ack = e.seq => e.acks[j].ack = e.seq
  <2> SUFFICES ASSUME NEW i \in DOMAIN e.acks, NEW j \in DOMAIN e.acks,
                      j > i, e.acks[i].ack = e.seq
               PROVE  e.acks[j].ack = e.seq
    OBVIOUS
  <2>1. /\ i \in Nat /\ i + 1 \in DOMAIN d.acks /\ e.acks[i] = d.acks[i + 1]
        /\ j \in Nat /\ j + 1 \in DOMAIN d.acks /\ e.acks[j] = d.acks[j + 1]
    BY <1>4
  <2>2. j + 1 > i + 1
    BY <2>1
  <2> QED
    BY <1>1, <1>6, <2>1, <2>2 DEF SameSender
<1>7. Taken(n, d) => Taken(n, e)
  <2> HAVE Taken(n, d)
  <2>1. \A i, j \in DOMAIN e.acks : j > i /\ e.acks[i].ack = e.seq => e.acks[j].ack = e.seq
    BY <1>6 DEF Taken
  <2> QED
    BY <1>1, <1>2, <1>3, <2>1 DEF Taken, SameSender, SameReceiver
<1>8. AcksAreTrue(n, d) => AcksAreTrue(n, e)
  <2> HAVE AcksAreTrue(n, d)
  <2> SUFFICES ASSUME NEW i \in DOMAIN e.acks, e.acks[i].type # "Reset", e.acks[i].ack = e.seq
               PROVE  /\ e.flying
                      /\ \A j \in DOMAIN e.acks :
                           j > i /\ e.acks[j].type # "Reset" => e.acks[j].ack = e.seq
                      /\ IsLast(n, HeadNumber(e), HeadPos(e)) => Done(e, HeadNumber(e))
    BY DEF AcksAreTrue
  <2>1. i \in Nat /\ i + 1 \in DOMAIN d.acks /\ e.acks[i] = d.acks[i + 1] /\ e.seq = d.seq
    BY <1>1, <1>4 DEF SameSender
  <2>2. /\ d.flying
        /\ \A j \in DOMAIN d.acks :
             j > i + 1 /\ d.acks[j].type # "Reset" => d.acks[j].ack = d.seq
        /\ IsLast(n, HeadNumber(d), HeadPos(d)) => Done(d, HeadNumber(d))
    BY <2>1 DEF AcksAreTrue
  <2>3. ASSUME NEW j \in DOMAIN e.acks, j > i, e.acks[j].type # "Reset"
        PROVE  e.acks[j].ack = e.seq
    <3>1. j \in Nat /\ j + 1 \in DOMAIN d.acks /\ e.acks[j] = d.acks[j + 1]
      BY <1>4
    <3>2. j + 1 > i + 1
      BY <2>1, <2>3, <3>1
    <3> QED
      BY <2>1, <2>2, <2>3, <3>1, <3>2
  <2> QED
    BY <1>1, <1>2, <2>2, <2>3 DEF SameSender, SameReceiver, Done
<1> QED
  BY <1>2, <1>5, <1>7, <1>8 DEF Synchronised

(* The fragment in flight is done with. What is in the queue then has not  *)
(* been sent, so nothing under way acknowledges it.                        *)
LEMMA CommitDirection ==
  ASSUME NEW n \in Nodes, NEW d \in Directions, NEW e \in Directions, QueueOK(n, d),
         HistoryOK(n, d), Commits(n, d, e), Synchronised(n, d)
  PROVE  QueueOK(n, e) /\ HistoryOK(n, e) /\ Synchronised(n, e)
<1>1. CASE Ignores(d, e)
  BY <1>1, IgnoreDirection
<1>2. CASE d.flying /\ d.acks[1].ack = d.seq
  <2> DEFINE k == NextNumber(n, HeadNumber(d), HeadPos(d))
             p == NextPos(n, HeadNumber(d), HeadPos(d))
  <2>1. /\ d.acks # <<>> /\ e.acks = Tail(d.acks) /\ ~e.flying /\ e.read = d.read
        /\ SameReceiver(d, e) /\ e.frames = d.frames /\ e.cut = d.cut
    BY <1>2 DEF Commits
  <2>2. 1 \in DOMAIN d.acks
    BY <2>1, TailAcks
  <2>3. NextSeq(d.last) # d.last
    BY NextSeqMoves DEF Directions
  <2>4. Taken(n, d)
    BY <1>2, <2>2, <2>3 DEF Synchronised, Due
  <2>5. QueueOK(n, e) /\ HeadNumber(e) = k /\ HeadPos(e) = p /\ e.seq = NextSeq(d.seq)
    BY <1>2, CommitQueue
  <2>6. Expects(n, d, k, p)
    BY <2>4 DEF Taken
  <2>7. HeadNumber(d) \in Nat \ {0} /\ HeadPos(d) \in Nat \ {0}
        /\ HeadPos(d) <= Length(n, HeadNumber(d))
    BY HeadPlace
  <2>8. k \in {HeadNumber(d), HeadNumber(d) + 1}
    BY <2>7, NextPlace
  <2> HIDE DEF k, p
  <2>9. HeadNumber(d) \in Nat /\ HeadNumber(e) \in Nat /\ HeadNumber(d) <= HeadNumber(e)
    BY <2>5, <2>7, <2>8
  <2>10. d.read <= e.read
    BY <2>1 DEF Directions
  <2>11. Expects(n, e, k, p)
    BY <2>1, <2>6, <2>9, <2>10, ExpectsStays
  <2>12. HistoryOK(n, e)
    <3>1. \A j \in 1..(HeadNumber(e) - 1) : Done(e, j)
      BY <2>5, <2>11 DEF Expects, Assembled
    <3>2. \A j \in e.delivered : j <= HeadNumber(e)
      BY <2>5, <2>11 DEF Expects, Assembled
    <3>3. e.out = d.out
      BY <2>1 DEF SameReceiver
    <3> QED
      BY <3>1, <3>2, <3>3 DEF HistoryOK
  <2>13. d.seq = d.last /\ e.last = d.last
    BY <2>1, <2>4 DEF Taken, SameReceiver
  <2>14. \A i \in DOMAIN e.acks : e.acks[i].ack = e.last
    <3> TAKE i \in DOMAIN e.acks
    <3>1. /\ i + 1 \in DOMAIN d.acks /\ i + 1 > 1
          /\ e.acks[i] = d.acks[i + 1]
      BY <2>1, TailAcks
    <3>2. d.acks[i + 1].ack = d.seq
      BY <1>2, <2>2, <2>4, <3>1 DEF Taken
    <3> QED
      BY <2>13, <3>1, <3>2
  <2>15. \A i \in DOMAIN e.frames : e.frames[i].type = "Data" => e.frames[i].seq # e.seq
    BY <2>1, <2>3, <2>4, <2>5, <2>13 DEF Taken
  <2>16. Due(n, e)
    BY <2>5, <2>11, <2>13, <2>14, <2>15 DEF Due
  <2> QED
    BY <2>5, <2>12, <2>16 DEF Synchronised
<1> QED
  BY <1>1, <1>2, CommitCases

(* The same, when all that is known is that the ACKs under way are true. *)
LEMMA CommitLeftBehind ==
  ASSUME NEW n \in Nodes, NEW d \in Directions, NEW e \in Directions, QueueOK(n, d),
         HistoryOK(n, d), Commits(n, d, e), AcksAreTrue(n, d), d.acks[1].type # "Reset"
  PROVE  QueueOK(n, e) /\ HistoryOK(n, e) /\ AcksAreTrue(n, e)
<1>1. CASE Ignores(d, e)
  BY <1>1, IgnoreDirection
<1>2. CASE d.flying /\ d.acks[1].ack = d.seq
  <2> DEFINE k == HeadNumber(d)
             p == HeadPos(d)
  <2>1. /\ d.acks # <<>> /\ e.acks = Tail(d.acks)
        /\ SameReceiver(d, e) /\ e.cut = d.cut
    BY <1>2 DEF Commits
  <2>2. 1 \in DOMAIN d.acks
    BY <2>1, TailAcks
  <2>3. IsLast(n, k, p) => Done(d, k)
    BY <1>2, <2>2 DEF AcksAreTrue
  <2>4. QueueOK(n, e) /\ HeadNumber(e) = NextNumber(n, k, p) /\ e.seq = NextSeq(d.seq)
    BY <1>2, CommitQueue
  <2>5. k \in Nat \ {0}
    BY HeadPlace
  <2> HIDE DEF k, p
  <2>6. \A j \in 1..(k - 1) : Done(e, j)
    BY <2>1 DEF HistoryOK, SameReceiver, Done, k
  <2>7. \A j \in d.delivered : j <= k /\ j \in Nat
    BY DEF HistoryOK, Directions, k
  <2>8. \A j \in 1..(HeadNumber(e) - 1) : Done(e, j)
    <3>1. CASE IsLast(n, k, p)
      <4>1. HeadNumber(e) = k + 1
        BY <2>4, <3>1 DEF NextNumber
      <4>2. \A j \in 1..((k + 1) - 1) : j \in 1..(k - 1) \/ j = k
        BY <2>5
      <4>3. Done(e, k)
        BY <2>1, <2>3, <3>1 DEF Done, SameReceiver
      <4> QED
        BY <2>6, <4>1, <4>2, <4>3
    <3>2. CASE ~IsLast(n, k, p)
      BY <2>4, <2>6, <3>2 DEF NextNumber
    <3> QED
      BY <3>1, <3>2
  <2>9. \A j \in e.delivered : j <= HeadNumber(e)
    <3>1. HeadNumber(e) \in {k, k + 1}
      BY <2>4 DEF NextNumber
    <3>2. \A j \in Nat : j <= k => j <= k + 1
      BY <2>5
    <3> QED
      BY <2>1, <2>7, <3>1, <3>2 DEF SameReceiver
  <2>10. HistoryOK(n, e)
    BY <2>1, <2>8, <2>9 DEF HistoryOK, SameReceiver
  <2>11. e.seq # d.seq
    BY <2>4, NextSeqMoves DEF Directions
  <2>12. \A i \in DOMAIN e.acks : e.acks[i].type # "Reset" => e.acks[i].ack = d.seq
    <3> TAKE i \in DOMAIN e.acks
    <3>1. /\ i + 1 \in DOMAIN d.acks /\ i + 1 > 1
          /\ e.acks[i] = d.acks[i + 1]
      BY <2>1, TailAcks
    <3> QED
      BY <1>2, <2>2, <3>1 DEF AcksAreTrue
  <2> QED
    BY <2>4, <2>10, <2>11, <2>12 DEF AcksAreTrue
<1> QED
  BY <1>1, <1>2, CommitCases
-----------------------------------------------------------------------------
(* The end of a session, and the start of the next.                        *)

(* The packets of a queue are the last that were read. *)
LEMMA QueuedNumbers ==
  ASSUME NEW n \in Nodes, NEW d \in Directions, QueueOK(n, d)
  PROVE  \A i \in 1..Len(d.queue) : d.queue[i][1].pkt = HeadNumber(d) + i - 1
<1>1. /\ d.queue \in Seq(QueuedPacket) /\ d.read \in Nat /\ Len(d.queue) \in Nat
      /\ Len(d.queue) <= d.read /\ d.read <= Len(Traffic[n]) /\ Len(Traffic[n]) \in Nat
  BY TrafficType, LenProperties DEF Directions, QueueOK
<1>2. HeadNumber(d) = d.read - Len(d.queue) + 1
  BY DEF HeadNumber
<1> TAKE i \in 1..Len(d.queue)
<1>3. CASE i = 1
  <2> DEFINE k == HeadNumber(d)
             p == HeadPos(d)
             m == Length(n, k)
  <2>1. d.queue # <<>>
    BY <1>1, EmptySeq
  <2>2. d.queue[1] = Piece(n, k, p, m)
    BY <2>1 DEF QueueOK
  <2>3. k \in Nat /\ p \in Nat \ {0} /\ p <= m
    BY HeadPlace
  <2>4. m \in Nat
    BY LengthType
  <2> HIDE DEF k, p, m
  <2>5. 1 \in 1..(m - p + 1)
    BY <2>3, <2>4
  <2>6. Piece(n, k, p, m)[1].pkt = k
    BY <2>5 DEF Piece, ByteAt
  <2>7. k + 1 - 1 = k
    BY <2>3
  <2> QED
    BY <1>3, <2>2, <2>6, <2>7 DEF k
<1>4. CASE i # 1
  <2> DEFINE k == d.read - Len(d.queue) + i
  <2>1. k \in 1..Len(Traffic[n]) /\ i \in 2..Len(d.queue) /\ k = HeadNumber(d) + i - 1
    <3>1. PICK r \in Nat, l \in Nat, t \in Nat :
            /\ r = d.read /\ l = Len(d.queue) /\ t = Len(Traffic[n])
            /\ l <= r /\ r <= t /\ HeadNumber(d) = r - l + 1
      BY <1>1, <1>2
    <3>2. k = r - l + i /\ i \in 1..l
      BY <3>1
    <3> HIDE DEF k
    <3>3. PICK j \in Nat : j = i /\ 2 <= j /\ j <= l
      BY <1>4, <3>2
    <3>4. l <= r /\ r <= t /\ 2 <= j /\ j <= l
      BY <3>1, <3>3
    <3>5. PICK x \in 1..t : x = r - l + j /\ x = (r - l + 1) + j - 1
      BY <3>4
    <3>6. k = x
      BY <3>2, <3>3, <3>5
    <3> QED
      BY <3>1, <3>3, <3>4, <3>5, <3>6
  <2>2. d.queue[i] = Packet(n, k)
    BY <2>1 DEF QueueOK
  <2> HIDE DEF k
  <2>3. Packet(n, k)[1].pkt = k
    BY <2>1, WholePiece DEF PacketNumber
  <2> QED
    BY <2>1, <2>2, <2>3
<1> QED
  BY <1>3, <1>4

(* ClearSession at the sender. *)
ClearsSender(d, e) ==
  /\ e.queue = d.queue /\ e.read = d.read /\ e.seq = 1 /\ ~e.flying
  /\ e.out = d.out /\ e.delivered = d.delivered /\ d.cut \subseteq e.cut

LEMMA ClearSender ==
  ASSUME NEW n \in Nodes, NEW d \in Directions, NEW e \in Directions, QueueOK(n, d),
         HistoryOK(n, d), ClearsSender(d, e)
  PROVE  QueueOK(n, e) /\ HistoryOK(n, e)
<1>1. HeadNumber(e) = HeadNumber(d) /\ HeadPos(e) = HeadPos(d)
  BY DEF ClearsSender, HeadNumber, HeadPos
<1>2. 1 \in 1..MaxSeq
  BY RadioAssumption DEF RadioAssumption
<1> QED
  BY <1>1, <1>2, HistoryStays DEF ClearsSender, QueueOK

(* ClearSession or LoseProcess at the receiver. *)
ClearsReceiver(d, e) ==
  /\ SameSender(d, e)
  /\ e.out = <<>> /\ e.delivered = d.delivered /\ d.cut \subseteq e.cut

LEMMA ClearReceiver ==
  ASSUME NEW n \in Nodes, NEW d \in Directions, NEW e \in Directions, QueueOK(n, d),
         HistoryOK(n, d), ClearsReceiver(d, e)
  PROVE  QueueOK(n, e) /\ HistoryOK(n, e)
<1>1. HeadNumber(e) = HeadNumber(d) /\ HeadPos(e) = HeadPos(d)
  BY DEF ClearsReceiver, SameSender, HeadNumber, HeadPos
<1>2. QueueOK(n, e)
  BY <1>1 DEF ClearsReceiver, SameSender, QueueOK
<1>3. DOMAIN e.out = {} /\ \A i \in 1..(Len(e.out) - 1) : FALSE
  <2>1. e.out = <<>> /\ e.out \in Seq(Seq(Byte))
    BY DEF ClearsReceiver, Directions
  <2>2. Len(e.out) = 0 /\ DOMAIN e.out = 1..Len(e.out)
    BY <2>1, EmptySeq, LenProperties
  <2> QED
    BY <2>2
<1>4. (\A k \in 1..(HeadNumber(e) - 1) : Done(e, k)) /\ \A k \in e.delivered : k <= HeadNumber(e)
  BY <1>1 DEF HistoryOK, ClearsReceiver, Done
<1> QED
  BY <1>2, <1>3, <1>4 DEF HistoryOK

(* LoseProcess at the sender: the queue is lost. *)
LosesSender(d, e) ==
  /\ e.queue = <<>> /\ e.read = d.read /\ e.seq = 1 /\ ~e.flying
  /\ e.out = d.out /\ e.delivered = d.delivered
  /\ e.cut = d.cut \cup {d.queue[i][1].pkt : i \in DOMAIN d.queue}

LEMMA LoseSender ==
  ASSUME NEW n \in Nodes, NEW d \in Directions, NEW e \in Directions, QueueOK(n, d),
         HistoryOK(n, d), LosesSender(d, e)
  PROVE  /\ QueueOK(n, e) /\ HistoryOK(n, e)
         /\ HeadNumber(e) \in Nat /\ HeadNumber(d) <= HeadNumber(e)
<1>1. /\ d.queue \in Seq(QueuedPacket) /\ d.read \in Nat /\ Len(d.queue) \in Nat
      /\ Len(d.queue) <= d.read /\ d.read <= Len(Traffic[n])
      /\ DOMAIN d.queue = 1..Len(d.queue)
  BY LenProperties DEF Directions, QueueOK
<1>2. HeadNumber(d) = d.read - Len(d.queue) + 1
  BY DEF HeadNumber
<1>3. e.queue = <<>> /\ Len(e.queue) = 0 /\ e.read = d.read
  BY EmptySeq DEF LosesSender
<1>4. HeadNumber(e) = d.read + 1 /\ HeadPos(e) = 1
  BY <1>1, <1>3 DEF HeadNumber, HeadPos
<1>5. HeadNumber(d) \in Nat /\ HeadNumber(d) <= d.read + 1
  BY <1>1, <1>2
<1>6. QueueOK(n, e)
  <2>1. 1 \in 1..MaxSeq
    BY RadioAssumption DEF RadioAssumption
  <2>2. 1 \in 1..Length(n, HeadNumber(e))
    BY LengthType
  <2>3. \A i \in 2..Len(e.queue) : FALSE
    BY <1>3
  <2>4. Len(e.queue) <= e.read /\ e.read <= Len(Traffic[n])
    BY <1>1, <1>3
  <2> QED
    BY <1>3, <1>4, <2>1, <2>2, <2>3, <2>4 DEF QueueOK, LosesSender
<1>7. \A k \in 1..(HeadNumber(e) - 1) : Done(e, k)
  <2> TAKE k \in 1..(HeadNumber(e) - 1)
  <2>1. k \in 1..d.read
    BY <1>1, <1>4
  <2>2. CASE k \in 1..(HeadNumber(d) - 1)
    BY <2>2 DEF HistoryOK, LosesSender, Done
  <2>3. CASE k \notin 1..(HeadNumber(d) - 1)
    <3> DEFINE i == k - HeadNumber(d) + 1
    <3>1. i \in 1..Len(d.queue) /\ k = HeadNumber(d) + i - 1
      BY <1>1, <1>2, <2>1, <2>3
    <3> HIDE DEF i
    <3>2. d.queue[i][1].pkt = HeadNumber(d) + i - 1
      BY <3>1, QueuedNumbers
    <3>3. k \in e.cut
      BY <1>1, <3>1, <3>2 DEF LosesSender
    <3> QED
      BY <3>3 DEF Done
  <2> QED
    BY <2>2, <2>3
<1>8. \A k \in e.delivered : k <= HeadNumber(e)
  <2>1. \A k \in e.delivered : k \in Nat /\ k <= HeadNumber(d)
    BY DEF HistoryOK, LosesSender, Directions
  <2> QED
    BY <1>1, <1>4, <1>5, <2>1
<1>9. HistoryOK(n, e)
  BY <1>7, <1>8 DEF HistoryOK, LosesSender
<1> QED
  BY <1>1, <1>4, <1>5, <1>6, <1>9

(* Only the frames under way change. *)
LEMMA FramesChange ==
  ASSUME NEW n \in Nodes, NEW d \in Directions, NEW e \in Directions, QueueOK(n, d),
         HistoryOK(n, d), SameSender(d, e), SameReceiver(d, e), e.cut = d.cut
  PROVE  QueueOK(n, e) /\ HistoryOK(n, e)
BY SameQueue DEF SameReceiver

(* A session starts with both ends at the head of the sender's queue. *)
LEMMA SessionStart ==
  ASSUME NEW n \in Nodes, NEW d \in Directions, QueueOK(n, d), HistoryOK(n, d),
         d.seq = 1, d.last = NoSeq, d.buffer = <<>>, d.out = <<>>,
         \A i \in DOMAIN d.frames : d.frames[i].type # "Data",
         \A i \in DOMAIN d.acks : d.acks[i].ack = NoSeq,
         HeadPos(d) > 1 => HeadNumber(d) \in d.cut
  PROVE  Due(n, d)
<1> DEFINE k == HeadNumber(d)
           p == HeadPos(d)
<1>2. /\ k \in Nat \ {0} /\ k <= Len(Traffic[n]) + 1
      /\ p \in Nat \ {0} /\ p <= Length(n, k)
  BY HeadPlace
<1> HIDE DEF k, p
<1>3. k \in 1..(Len(Traffic[n]) + 1) /\ p \in 1..Length(n, k)
  <2>1. Len(Traffic[n]) \in Nat
    BY TrafficType
  <2>2. Length(n, k) \in Nat
    BY LengthType
  <2> QED
    BY <1>2, <2>1, <2>2
<1>4. d.buffer = Piece(n, k, p, p - 1)
  <2> DEFINE b == p - 1
  <2>1. b \in Nat /\ p <= b + 1 /\ p = b + 1
    BY <1>2
  <2> HIDE DEF b
  <2>2. Piece(n, k, p, b) = <<>>
    BY <1>2, <2>1, EmptyPiece
  <2> QED
    BY <2>2 DEF b
<1>5. p \in 1..p
  BY <1>2
<1>6. (\A j \in 1..(k - 1) : Done(d, j)) /\ \A j \in d.delivered : j <= k
  BY DEF HistoryOK, k
<1>7. Assembled(n, d, k, p)
  BY <1>3, <1>4, <1>5, <1>6 DEF Assembled, k, p
<1>8. Expects(n, d, k, p)
  BY <1>7 DEF Expects
<1>9. NextSeq(d.last) = 1
  BY DEF NextSeq
<1> QED
  BY <1>8, <1>9 DEF Due, k, p

(* When the receiver loses its state, the ACKs under way are still true. *)
LEMMA SynchronisedAcks ==
  ASSUME NEW n \in Nodes, NEW d \in Directions, QueueOK(n, d), Synchronised(n, d)
  PROVE  /\ AcksAreTrue(n, d)
         /\ \E k \in 1..(Len(Traffic[n]) + 1) : \E p \in 1..Length(n, k) : Expects(n, d, k, p)
<1> DEFINE k == HeadNumber(d)
           p == HeadPos(d)
<1>1. CASE Due(n, d)
  <2>1. d.seq # d.last
    BY <1>1, NextSeqMoves DEF Due, Directions
  <2>2. AcksAreTrue(n, d)
    BY <1>1, <2>1 DEF Due, AcksAreTrue
  <2>3. Expects(n, d, k, p)
    BY <1>1 DEF Due
  <2> QED
    BY <2>2, <2>3 DEF Expects, Assembled
<1>2. CASE Taken(n, d)
  <2> DEFINE k2 == NextNumber(n, k, p)
             p2 == NextPos(n, k, p)
  <2>1. Expects(n, d, k2, p2)
    BY <1>2 DEF Taken
  <2>2. k \in Nat \ {0}
    BY HeadPlace
  <2> HIDE DEF k, p
  <2>3. IsLast(n, k, p) => Done(d, k)
    <3> HAVE IsLast(n, k, p)
    <3>1. k \in 1..(k2 - 1)
      BY <2>2 DEF NextNumber
    <3> QED
      BY <2>1, <3>1 DEF Expects, Assembled
  <2> HIDE DEF k2, p2
  <2>4. AcksAreTrue(n, d)
    BY <1>2, <2>3 DEF Taken, AcksAreTrue, k, p
  <2> QED
    BY <2>1, <2>4 DEF Expects, Assembled
<1> QED
  BY <1>1, <1>2 DEF Synchronised

LEMMA AcksStayTrue ==
  ASSUME NEW n, NEW d, NEW e, AcksAreTrue(n, d), SameSender(d, e), e.acks = d.acks,
         d.delivered \subseteq e.delivered, d.cut \subseteq e.cut
  PROVE  AcksAreTrue(n, e)
<1>1. HeadNumber(e) = HeadNumber(d) /\ HeadPos(e) = HeadPos(d)
  BY DEF SameSender, HeadNumber, HeadPos
<1> QED
  BY <1>1 DEF AcksAreTrue, SameSender, Done
=============================================================================
