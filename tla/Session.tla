-------------------------------- MODULE Session --------------------------------
(***************************************************************************)
(* Why the link works: the inductive invariant behind its end-to-end       *)
(* properties. SessionProofs shows that every step keeps it.               *)
(*                                                                         *)
(* Each end sends one fragment at a time and repeats it until it is        *)
(* acknowledged. So the next sequence number and the head of the sender's  *)
(* queue, the last sequence number and the frame buffer of the receiver,   *)
(* and what the frames between them carry, are at most one fragment apart: *)
(* a direction of the link is Due (the receiver expects the head fragment) *)
(* or Taken (it has consumed it, and its ACK is on its way or lost).       *)
(***************************************************************************)
EXTENDS Nerfnet

(* Both hold for the runs and theorems that speak of sessions. A Peer that *)
(* restarts, or that answers a RESET of one handshake when the next one    *)
(* has begun, breaks the link: runs peer_restart and late_reset.           *)
SessionsAreKept == "secondary" \notin Restarts /\ ~LateAtReset

-----------------------------------------------------------------------------
(* The bytes of a packet. What a node sends is cut from the k-th packet of *)
(* its TUN; a place <<k, p>> is the p-th byte of it, and the place after   *)
(* all packets is the first byte of one that is yet to come.               *)

Length(n, k) == IF k \in 1..Len(Traffic[n]) THEN Traffic[n][k] ELSE 1

ByteAt(n, k, p) == [src |-> n, pkt |-> k, pos |-> p]

Piece(n, k, a, b) == [i \in 1..(b - a + 1) |-> ByteAt(n, k, a + i - 1)]

(* The last byte of the fragment that begins at p. *)
End(n, k, p) == Least(Length(n, k), p + MaxPayload - 1)

IsLast(n, k, p) == End(n, k, p) = Length(n, k)

Fragment(n, k, p) == Piece(n, k, p, End(n, k, p))

(* The place that follows the fragment. *)
NextNumber(n, k, p) == IF IsLast(n, k, p) THEN k + 1 ELSE k
NextPos(n, k, p) == IF IsLast(n, k, p) THEN 1 ELSE End(n, k, p) + 1

-----------------------------------------------------------------------------
(* What concerns the packets of n, at both ends and in between. Every      *)
(* frame that n receives is also an ACK for what n has sent.               *)
Direction(n) ==
  [queue     |-> mac[n].read_buffer_,
   seq       |-> mac[n].next_tx_seq_,
   flying    |-> mac[n].tx_in_flight_,
   frames    |-> rx_fifo[Other(n)],
   acks      |-> rx_fifo[n],
   buffer    |-> mac[Other(n)].frame_buffer_,
   last      |-> mac[Other(n)].last_rx_seq_,
   consumed  |-> consumed[Other(n)],
   out       |-> session_out[Other(n)],
   delivered |-> delivered[Other(n)],
   cut       |-> cut[n],
   read      |-> tun_read[n]]

(* The place of the first byte that is not yet acknowledged. *)
HeadNumber(d) == d.read - Len(d.queue) + 1
HeadPos(d) == IF d.queue = <<>> THEN 1 ELSE d.queue[1][1].pos

Done(d, k) == k \in d.delivered \cup d.cut

(* The queue holds the packets read last, the first perhaps shortened. *)
QueueOK(n, d) ==
  /\ d.seq \in 1..MaxSeq
  /\ d.flying => d.queue # <<>>
  /\ Len(d.queue) <= d.read
  /\ d.read <= Len(Traffic[n])
  /\ HeadPos(d) \in 1..Length(n, HeadNumber(d))
  /\ d.queue # <<>> =>
       d.queue[1] = Piece(n, HeadNumber(d), HeadPos(d), Length(n, HeadNumber(d)))
  /\ \A i \in 2..Len(d.queue) : d.queue[i] = Packet(n, d.read - Len(d.queue) + i)

(* What left the queue was written or cut; what was written is whole, and  *)
(* one packet after the other.                                             *)
HistoryOK(n, d) ==
  /\ \A k \in 1..(HeadNumber(d) - 1) : Done(d, k)
  /\ \A k \in d.delivered : k <= HeadNumber(d)
  /\ \A i \in DOMAIN d.out : d.out[i] = Packet(n, PacketNumber(d.out[i]))
  /\ \A i \in 1..(Len(d.out) - 1) :
       PacketNumber(d.out[i + 1]) = PacketNumber(d.out[i]) + 1

(* The receiver has consumed everything before the place <<k, p>>. What it *)
(* reassembles lacks its beginning only if a reset cut the packet.         *)
Assembled(n, d, k, p) ==
  /\ k \in 1..(Len(Traffic[n]) + 1)
  /\ p \in 1..Length(n, k)
  /\ \E s \in 1..p :
       /\ d.buffer = Piece(n, k, s, p - 1)
       /\ s > 1 => k \in d.cut /\ d.out = <<>>
  /\ d.out # <<>> => PacketNumber(d.out[Len(d.out)]) = k - 1
  /\ \A j \in 1..(k - 1) : Done(d, j)
  /\ \A j \in d.delivered : j <= k

(* The frame consumed last, sent again. *)
IsCopy(d, f) == d.last # NoSeq /\ f.seq = d.last /\ f.payload = d.consumed

(* The fragment at the place <<k, p>>, with the number that is expected. *)
IsFresh(n, d, f, k, p) ==
  /\ f.seq = NextSeq(d.last)
  /\ f.payload = Fragment(n, k, p)
  /\ f.arg = Least(Length(n, k) - p + 1, Uint8Max)
  /\ k <= HeadNumber(d)
  /\ k <= d.read

(* The receiver is at <<k, p>>, and the DATA frames on their way to it are *)
(* copies of the fragment before, and after them the one at this place.    *)
Expects(n, d, k, p) ==
  /\ Assembled(n, d, k, p)
  /\ \A i \in DOMAIN d.frames : d.frames[i].type = "Data" =>
       \/ IsCopy(d, d.frames[i])
       \/ /\ IsFresh(n, d, d.frames[i], k, p)
          /\ \A j \in DOMAIN d.frames :
               j > i /\ d.frames[j].type = "Data" => d.frames[j].seq = NextSeq(d.last)

(* The head fragment has not been consumed, and nothing acknowledges it. *)
Due(n, d) ==
  /\ Expects(n, d, HeadNumber(d), HeadPos(d))
  /\ d.seq = NextSeq(d.last)
  /\ \A i \in DOMAIN d.frames :
       d.frames[i].type = "Data" /\ d.frames[i].seq = d.seq => d.flying
  /\ \A i \in DOMAIN d.acks : d.acks[i].ack = d.last

(* It has been consumed; once an ACK says so, all that follow do. *)
Taken(n, d) ==
  /\ d.flying
  /\ d.seq = d.last
  /\ d.consumed = Fragment(n, HeadNumber(d), HeadPos(d))
  /\ Expects(n, d, NextNumber(n, HeadNumber(d), HeadPos(d)),
                   NextPos(n, HeadNumber(d), HeadPos(d)))
  /\ \A i \in DOMAIN d.frames : d.frames[i].type = "Data" => d.frames[i].seq = d.last
  /\ \A i, j \in DOMAIN d.acks : j > i /\ d.acks[i].ack = d.seq => d.acks[j].ack = d.seq

Synchronised(n, d) == Due(n, d) \/ Taken(n, d)

(* What is left of it when the receiver has lost its state: an ACK under   *)
(* way tells that the head fragment was consumed. That of a RESET is not   *)
(* read.                                                                   *)
AcksAreTrue(n, d) ==
  \A i \in DOMAIN d.acks : d.acks[i].type # "Reset" /\ d.acks[i].ack = d.seq =>
    /\ d.flying
    /\ \A j \in DOMAIN d.acks :
         j > i /\ d.acks[j].type # "Reset" => d.acks[j].ack = d.seq
    /\ IsLast(n, HeadNumber(d), HeadPos(d)) => Done(d, HeadNumber(d))

-----------------------------------------------------------------------------
(* n is at the start of a session. *)
Cleared(n) ==
  /\ mac[n] = ClearedMac(mac[n])
  /\ consumed[n] = <<>>
  /\ session_out[n] = <<>>
  /\ ShortenedHead(mac[n]) \subseteq cut[n]

(* RESETs on their way to n come before, or after, all other frames. *)
ResetsFirst(n) ==
  \A i, j \in DOMAIN rx_fifo[n] :
    j > i /\ rx_fifo[n][j].type = "Reset" => rx_fifo[n][i].type = "Reset"

ResetsLast(n) ==
  \A i, j \in DOMAIN rx_fifo[n] :
    j > i /\ rx_fifo[n][i].type = "Reset" => rx_fifo[n][j].type = "Reset"

(* The session: both directions synchronised. RESETs left over from the    *)
(* handshake reach the Peer before anything else does, and clear nothing.  *)
Linked ==
  /\ p_pc \in {"run", "exchange", "wait"}
  /\ ResetsFirst(Peer)
  /\ PeerOwesReset => s_pc # "reply" /\ Cleared(Peer)
  /\ \A n \in Nodes : Synchronised(n, Direction(n))

(* Until a RESET reaches it, the Peer is in the session that the           *)
(* Coordinator, or its process that has ended, has left: it still reads    *)
(* frames of that session, and what they acknowledge has been consumed.    *)
LeftBehind ==
  /\ s_pc # "reset"
  /\ ResetsLast(Peer)
  /\ \A i \in DOMAIN rx_fifo[Self] : rx_fifo[Self][i].type # "Reset"
  /\ AcksAreTrue(Peer, Direction(Peer))
  /\ \E k \in 1..(Len(Traffic[Self]) + 1) : \E p \in 1..Length(Self, k) :
       Expects(Self, Direction(Self), k, p)

(* From then on it has only RESETs to answer, and every such answer finds  *)
(* it at the start of a session.                                           *)
Reached ==
  /\ s_pc # "reply"
  /\ \A i \in DOMAIN rx_fifo[Peer] : rx_fifo[Peer][i].type = "Reset"
  /\ Cleared(Peer)

Apart ==
  /\ p_pc \in {"run", "retry", "reset", "reset_wait"}
  /\ Cleared(Self)
  /\ \A i \in DOMAIN rx_fifo[Peer] :
       rx_fifo[Peer][i].type = "Reset" => rx_fifo[Peer][i].ack = NoSeq
  /\ LeftBehind \/ Reached

PacketsOK == \A n \in Nodes : QueueOK(n, Direction(n)) /\ HistoryOK(n, Direction(n))

SessionInv == PacketsOK /\ IF InHandshake THEN Apart ELSE Linked

(* A link that was given up is taken up again with a reset. *)
GivenUpAsksForReset == disconnected_ => connection_reset_required_

(* What the proofs carry from step to step. *)
IInv ==
  /\ TypeOK
  /\ ExchangeNeverResets
  /\ ConnectedBelowThresholds
  /\ GivenUpAsksForReset
  /\ InFlightIsHead
  /\ SessionInv
=============================================================================
