----------------------------- MODULE SessionProofs -----------------------------
(***************************************************************************)
(* The promises of the link, for every traffic, every loss and every       *)
(* interleaving: IInv of Session is an invariant, and the protocol         *)
(* implements PacketLink.                                                  *)
(***************************************************************************)
EXTENDS DirectionProofs

-----------------------------------------------------------------------------
(* How the steps of the link change the records of its two directions.     *)

LEMMA DirectionTypes ==
  ASSUME TypeOK, TypeOK', NEW n \in Nodes
  PROVE  /\ Direction(n) \in Directions /\ Direction(n)' \in Directions
         /\ Other(n) \in Nodes /\ Other(Other(n)) = n /\ Other(n) # n
<1>1. Other(n) \in Nodes /\ Other(Other(n)) = n /\ Other(n) # n
  BY DEF Nodes, Other
<1>2. Direction(n) \in Directions
  BY DirectionType DEF TypeOK
<1>3. Direction(n)' \in Directions
  BY <1>1 DEF TypeOK, RadioTypeOK, Mac, Direction, Directions
<1> QED
  BY <1>1, <1>2, <1>3

LEMMA SameDirection ==
  ASSUME UNCHANGED <<mac, rx_fifo, tun_read, session_out, consumed, delivered, cut>>
  PROVE  \A n \in Nodes : Direction(n)' = Direction(n)
BY DEF Direction

(* TunnelThread pushes to its own queue. *)
LEMMA TunnelDirections ==
  ASSUME TypeOK, NEW n \in Nodes, TunnelThread(n)
  PROVE  /\ Pushes(n, Direction(n), Direction(n)')
         /\ Direction(Other(n))' = Direction(Other(n))
<1>1. Other(n) \in Nodes /\ Other(Other(n)) = n /\ Other(n) # n
  BY DEF Nodes, Other
<1>2. mac \in [Nodes -> Mac] /\ tun_read \in [Nodes -> Nat]
  BY DEF TypeOK, RadioTypeOK
<1>3. /\ mac'[n] = [mac[n] EXCEPT !.read_buffer_ =
                       Append(mac[n].read_buffer_, Packet(n, tun_read[n] + 1))]
      /\ mac'[Other(n)] = mac[Other(n)]
      /\ tun_read'[n] = tun_read[n] + 1 /\ tun_read'[Other(n)] = tun_read[Other(n)]
      /\ tun_read[n] < Len(Traffic[n])
      /\ UNCHANGED <<rx_fifo, session_out, consumed, delivered, cut>>
  BY <1>1, <1>2 DEF TunnelThread
<1>4. /\ mac'[n].read_buffer_ = Append(mac[n].read_buffer_, Packet(n, tun_read[n] + 1))
      /\ mac'[n].next_tx_seq_ = mac[n].next_tx_seq_
      /\ mac'[n].tx_in_flight_ = mac[n].tx_in_flight_
      /\ mac'[n].frame_buffer_ = mac[n].frame_buffer_
      /\ mac'[n].last_rx_seq_ = mac[n].last_rx_seq_
  <2> DEFINE q == Append(mac[n].read_buffer_, Packet(n, tun_read[n] + 1))
  <2>1. mac[n] \in Mac
    BY <1>2
  <2>2. mac'[n] = [mac[n] EXCEPT !.read_buffer_ = q]
    BY <1>3
  <2> HIDE DEF q
  <2>3. /\ mac'[n].read_buffer_ = q
        /\ mac'[n].next_tx_seq_ = mac[n].next_tx_seq_
        /\ mac'[n].tx_in_flight_ = mac[n].tx_in_flight_
        /\ mac'[n].frame_buffer_ = mac[n].frame_buffer_
        /\ mac'[n].last_rx_seq_ = mac[n].last_rx_seq_
    BY <2>1, <2>2 DEF Mac
  <2> QED
    BY <2>3 DEF q
<1>5. Pushes(n, Direction(n), Direction(n)')
  BY <1>1, <1>3, <1>4 DEF Pushes, Direction, SameReceiver
<1>6. Direction(Other(n))' = Direction(Other(n))
  BY <1>1, <1>3, <1>4 DEF Direction
<1> QED
  BY <1>5, <1>6

(* The fragment in flight is the one at the head's place. *)
LEMMA HeadFragment ==
  ASSUME NEW n \in Nodes, NEW d \in Directions, QueueOK(n, d), d.queue # <<>>
  PROVE  LET k == HeadNumber(d)
             p == HeadPos(d)
             current == Head(d.queue)
         IN  /\ SubSeq(current, 1, Least(Len(current), MaxPayload)) = Fragment(n, k, p)
             /\ Len(current) = Length(n, k) - p + 1
<1> DEFINE k == HeadNumber(d)
           p == HeadPos(d)
           m == Length(n, k)
           c == End(n, k, p)
           l == m - p + 1
           j == Least(l, MaxPayload)
<1>1. k \in Nat /\ p \in Nat \ {0} /\ p <= m
  BY HeadPlace
<1>2. m \in Nat
  BY LengthType
<1>3. Head(d.queue) = Piece(n, k, p, m)
  BY DEF QueueOK
<1>4. c \in Nat /\ p <= c
  BY <1>1, EndType
<1>5. j \in Nat /\ 1 <= j + 1 /\ j <= m - p + 1 /\ c <= p + j - 1 /\ p + j - 1 <= c
  BY <1>1, <1>2, PayloadType DEF End, Least
<1>6. p <= p + 1 - 1 /\ p + 1 - 1 <= p /\ p <= m + 1
  BY <1>1, <1>2
<1> HIDE DEF k, p, m, c, j
<1>7. Slice(Piece(n, k, p, m), 1, j) = Piece(n, k, p, c)
  <2> DEFINE i == 1
  <2>1. i \in Nat \ {0} /\ i <= j + 1 /\ p <= p + i - 1 /\ p + i - 1 <= p
    BY <1>5, <1>6
  <2> HIDE DEF i
  <2>2. Slice(Piece(n, k, p, m), i, j) = Piece(n, k, p, c)
    BY <1>1, <1>2, <1>4, <1>5, <1>6, <2>1, CutPiece
  <2> QED
    BY <2>2 DEF i
<1>8. Len(Piece(n, k, p, m)) = l
  <2>1. PICK x \in Nat \ {0}, y \in Nat : x = p /\ y = m /\ x <= y + 1
    BY <1>1, <1>2, <1>6
  <2>2. Len(Piece(n, k, x, y)) = y - x + 1
    BY <1>1, <2>1, PieceLength
  <2> QED
    BY <2>1, <2>2
<1>9. j = Least(l, MaxPayload)
  BY DEF j
<1> HIDE DEF l
<1>10. SubSeq(Piece(n, k, p, m), 1, Least(Len(Piece(n, k, p, m)), MaxPayload)) = Piece(n, k, p, c)
  BY <1>7, <1>8, <1>9 DEF Slice
<1> QED
  BY <1>3, <1>8, <1>10 DEF Fragment, k, p, m, c, l

(* n sends f: the next frame of its direction, an ACK in the other one. *)
Transmits(n, f) ==
  /\ f \in Frame
  /\ f.ack = mac[n].last_rx_seq_
  /\ \/ f.type # "Data" /\ UNCHANGED mac
     \/ /\ WithFragmentInFlight(mac[n]).tx_in_flight_
        /\ f = DataFrame(WithFragmentInFlight(mac[n]))
        /\ mac' = [mac EXCEPT ![n] = WithFragmentInFlight(@)]
  /\ rx_fifo' \in {rx_fifo, [rx_fifo EXCEPT ![Other(n)] = Append(@, f)]}
  /\ UNCHANGED <<tun_read, session_out, consumed, delivered, cut>>

LEMMA BuiltMac ==
  ASSUME NEW m \in Mac
  PROVE  LET b == WithFragmentInFlight(m)
         IN  /\ b \in Mac
             /\ b.read_buffer_ = m.read_buffer_
             /\ b.next_tx_seq_ = m.next_tx_seq_
             /\ b.frame_buffer_ = m.frame_buffer_
             /\ b.last_rx_seq_ = m.last_rx_seq_
             /\ m.tx_in_flight_ => b.tx_in_flight_
BY WithFragmentInFlightType DEF WithFragmentInFlight, Mac

LEMMA TransmitDirections ==
  ASSUME TypeOK, TypeOK', InFlightIsHead, NEW n \in Nodes, NEW f, Transmits(n, f),
         QueueOK(n, Direction(n))
  PROVE  /\ Sends(n, Direction(n), Direction(n)', f)
         /\ Answers(Direction(Other(n)), Direction(Other(n))', f)
<1> DEFINE d == Direction(n)
           b == WithFragmentInFlight(mac[n])
<1>1. Other(n) \in Nodes /\ Other(Other(n)) = n /\ Other(n) # n /\ d \in Directions
  BY DirectionTypes
<1>2. mac \in [Nodes -> Mac] /\ mac[n] \in Mac /\ rx_fifo \in [Nodes -> Seq(Frame)]
  BY DEF TypeOK, RadioTypeOK
<1>3. FragmentIsHead(mac[n])
  BY DEF InFlightIsHead
<1>4. /\ b.read_buffer_ = mac[n].read_buffer_
      /\ b.next_tx_seq_ = mac[n].next_tx_seq_
      /\ b.frame_buffer_ = mac[n].frame_buffer_
      /\ b.last_rx_seq_ = mac[n].last_rx_seq_
      /\ mac[n].tx_in_flight_ => b.tx_in_flight_
  BY <1>2, BuiltMac
<1>5. FragmentIsHead(b)
  BY <1>2, <1>3, BuildFragment
<1> HIDE DEF b
<1>6. \/ f.type # "Data" /\ mac' = mac
      \/ /\ b.tx_in_flight_ /\ f = DataFrame(b)
         /\ mac'[n] = b /\ mac'[Other(n)] = mac[Other(n)]
  BY <1>1, <1>2 DEF Transmits, b
<1>7. /\ mac'[n].read_buffer_ = mac[n].read_buffer_
      /\ mac'[n].next_tx_seq_ = mac[n].next_tx_seq_
      /\ mac'[n].frame_buffer_ = mac[n].frame_buffer_
      /\ mac'[n].last_rx_seq_ = mac[n].last_rx_seq_
      /\ mac[n].tx_in_flight_ => mac'[n].tx_in_flight_
      /\ mac'[Other(n)] = mac[Other(n)]
  BY <1>4, <1>6
<1>8. mac'[n].tx_in_flight_ => mac[n].read_buffer_ # <<>>
  BY <1>3, <1>4, <1>5, <1>6 DEF FragmentIsHead
<1>9. f.type = "Data" =>
        /\ mac[n].read_buffer_ # <<>>
        /\ mac'[n].tx_in_flight_
        /\ f.seq = mac[n].next_tx_seq_
        /\ f.payload = Fragment(n, HeadNumber(d), HeadPos(d))
        /\ f.arg = Least(Length(n, HeadNumber(d)) - HeadPos(d) + 1, Uint8Max)
  <2> HAVE f.type = "Data"
  <2> DEFINE current == Head(mac[n].read_buffer_)
  <2>1. b.tx_in_flight_ /\ f = DataFrame(b) /\ mac'[n] = b
    BY <1>6
  <2>2. /\ mac[n].read_buffer_ # <<>>
        /\ f.seq = mac[n].next_tx_seq_
        /\ f.arg = Least(Len(current), Uint8Max)
        /\ f.payload = SubSeq(current, 1, Least(Len(current), MaxPayload))
    BY <1>4, <1>5, <2>1 DEF FragmentIsHead, DataFrame
  <2>3. d.queue = mac[n].read_buffer_
    BY DEF Direction
  <2> HIDE DEF d
  <2>4. /\ SubSeq(current, 1, Least(Len(current), MaxPayload))
             = Fragment(n, HeadNumber(d), HeadPos(d))
        /\ Len(current) = Length(n, HeadNumber(d)) - HeadPos(d) + 1
    BY <1>1, <2>2, <2>3, HeadFragment DEF d
  <2> QED
    BY <2>1, <2>2, <2>4
<1>10. /\ rx_fifo'[Other(n)] \in {rx_fifo[Other(n)], Append(rx_fifo[Other(n)], f)}
       /\ rx_fifo'[n] = rx_fifo[n]
  BY <1>1, <1>2 DEF Transmits
<1>11. UNCHANGED <<tun_read, session_out, consumed, delivered, cut>> /\ f.ack = mac[n].last_rx_seq_
  BY DEF Transmits
<1>12. Sends(n, d, d', f)
  <2>1. /\ d.queue = mac[n].read_buffer_ /\ d'.queue = mac'[n].read_buffer_
        /\ d.seq = mac[n].next_tx_seq_ /\ d'.seq = mac'[n].next_tx_seq_
        /\ d.flying = mac[n].tx_in_flight_ /\ d'.flying = mac'[n].tx_in_flight_
        /\ d.read = d'.read /\ d'.cut = d.cut
        /\ d.frames = rx_fifo[Other(n)] /\ d'.frames = rx_fifo'[Other(n)]
        /\ d'.acks = d.acks
    BY <1>7, <1>10, <1>11 DEF Direction
  <2>2. SameReceiver(d, d')
    BY <1>7, <1>10, <1>11 DEF Direction, SameReceiver
  <2> HIDE DEF d
  <2> QED
    BY <1>7, <1>8, <1>9, <1>10, <2>1, <2>2 DEF Sends
<1>13. Answers(Direction(Other(n)), Direction(Other(n))', f)
  BY <1>1, <1>7, <1>10, <1>11 DEF Direction, Answers, SameSender, SameReceiver
<1> QED
  BY <1>12, <1>13

(* CommitAckLocked and ConsumeDataFrameLocked do not meddle with each      *)
(* other: one is about what n sends, the other about what it receives.     *)
LEMMA AfterFrameFields ==
  ASSUME NEW m \in Mac, NEW f \in Frame
  PROVE  LET c == CommitAckLocked(m, f.ack)
             a == ConsumeDataFrameLocked(c, f)
         IN  /\ IF IsAckOfInFlight(m, f.ack)
                THEN /\ a.read_buffer_ = Consumed(m.read_buffer_, m.tx_inflight_payload_)
                     /\ ~a.tx_in_flight_
                     /\ a.next_tx_seq_ = AdvancedTxSeq(m.next_tx_seq_)
                ELSE /\ a.read_buffer_ = m.read_buffer_
                     /\ a.tx_in_flight_ = m.tx_in_flight_
                     /\ a.next_tx_seq_ = m.next_tx_seq_
             /\ IF f.type # "Data" \/ IsDuplicate(m, f)
                THEN a.frame_buffer_ = m.frame_buffer_ /\ a.last_rx_seq_ = m.last_rx_seq_
                ELSE IsExpected(m, f) =>
                  /\ a.last_rx_seq_ = f.seq
                  /\ a.frame_buffer_ = IF CompletesPacket(f) THEN <<>>
                                       ELSE m.frame_buffer_ \o f.payload
<1> DEFINE c == CommitAckLocked(m, f.ack)
           a == ConsumeDataFrameLocked(c, f)
<1>1. c \in Mac
  BY CommitAckLockedType DEF Frame
<1>2. c.frame_buffer_ = m.frame_buffer_ /\ c.last_rx_seq_ = m.last_rx_seq_
  BY DEF CommitAckLocked, Mac
<1>3. IF IsAckOfInFlight(m, f.ack)
      THEN /\ c.read_buffer_ = Consumed(m.read_buffer_, m.tx_inflight_payload_)
           /\ ~c.tx_in_flight_
           /\ c.next_tx_seq_ = AdvancedTxSeq(m.next_tx_seq_)
      ELSE /\ c.read_buffer_ = m.read_buffer_
           /\ c.tx_in_flight_ = m.tx_in_flight_
           /\ c.next_tx_seq_ = m.next_tx_seq_
  BY DEF CommitAckLocked, Mac
<1> HIDE DEF c
<1>4. /\ a.read_buffer_ = c.read_buffer_
      /\ a.tx_in_flight_ = c.tx_in_flight_
      /\ a.next_tx_seq_ = c.next_tx_seq_
  BY <1>1 DEF ConsumeDataFrameLocked, Mac
<1>5. /\ IsDuplicate(c, f) <=> IsDuplicate(m, f)
      /\ IsExpected(c, f) <=> IsExpected(m, f)
  BY <1>2 DEF IsDuplicate, IsExpected
<1>6. IF f.type # "Data" \/ IsDuplicate(c, f)
      THEN a.frame_buffer_ = c.frame_buffer_ /\ a.last_rx_seq_ = c.last_rx_seq_
      ELSE IsExpected(c, f) =>
        /\ a.last_rx_seq_ = f.seq
        /\ a.frame_buffer_ = IF CompletesPacket(f) THEN <<>> ELSE c.frame_buffer_ \o f.payload
  BY <1>1 DEF ConsumeDataFrameLocked, IsRefused, Mac
<1> QED
  BY <1>2, <1>3, <1>4, <1>5, <1>6 DEF c

(* What write() gets, and what is recorded of it. *)
LEMMA TakeFrameHistory ==
  ASSUME TypeOK, NEW n \in Nodes, NEW f \in Frame, TakeFrame(n, f)
  PROVE  LET joined == mac[n].frame_buffer_ \o f.payload
             written == /\ f.type = "Data" /\ ~IsDuplicate(mac[n], f)
                        /\ IsExpected(mac[n], f)
                        /\ CompletesPacket(f) /\ IsValidIpPacket(joined)
             k == PacketNumber(joined)
         IN  /\ IF written
                THEN /\ session_out'[n] = Append(session_out[n], joined)
                     /\ \/ delivered'[n] = delivered[n] \cup {k} /\ cut' = cut
                        \/ /\ delivered'[n] = delivered[n]
                           /\ cut'[Other(n)] = cut[Other(n)] \cup {k}
                           /\ cut'[n] = cut[n]
                           /\ n \in FailingWriters
                ELSE UNCHANGED <<session_out, delivered, cut>>
             /\ session_out'[Other(n)] = session_out[Other(n)]
             /\ delivered'[Other(n)] = delivered[Other(n)]
             /\ consumed'[Other(n)] = consumed[Other(n)]
             /\ IF f.type # "Data" \/ IsDuplicate(mac[n], f)
                THEN consumed'[n] = consumed[n]
                ELSE IsExpected(mac[n], f) => consumed'[n] = f.payload
             /\ tun_read' = tun_read
<1> DEFINE joined == mac[n].frame_buffer_ \o f.payload
           written == /\ f.type = "Data" /\ ~IsDuplicate(mac[n], f)
                      /\ IsExpected(mac[n], f)
                      /\ CompletesPacket(f) /\ IsValidIpPacket(joined)
           out == WrittenBy(mac[n], f)
           k == PacketNumber(joined)
           packets == {out[i][1].pkt : i \in DOMAIN out}
<1>1. Other(n) \in Nodes /\ Other(n) # n
  BY DEF Nodes, Other
<1>2. /\ session_out \in [Nodes -> Seq(Seq(Byte))] /\ consumed \in [Nodes -> Seq(Byte)]
      /\ delivered \in [Nodes -> SUBSET Nat] /\ cut \in [Nodes -> SUBSET Nat]
      /\ mac[n].frame_buffer_ \in Seq(Byte) /\ f.payload \in Seq(Byte)
  BY DEF TypeOK, RadioTypeOK, Mac, Frame
<1>3. joined \in Seq(Byte)
  BY <1>2, ConcatProperties
<1>4. out = IF written THEN <<joined>> ELSE <<>>
  BY DEF WrittenBy
<1>5. packets = IF written THEN {k} ELSE {}
  <2>1. k = joined[1].pkt
    BY DEF PacketNumber
  <2> HIDE DEF out, joined, k, written
  <2>2. CASE written
    <3>1. out = <<joined>> /\ DOMAIN <<joined>> = {1} /\ <<joined>>[1] = joined
      BY <1>4, <2>2
    <3> QED
      BY <2>1, <2>2, <3>1
  <2>3. CASE ~written
    <3>1. out = <<>> /\ DOMAIN <<>> = {}
      BY <1>4, <2>3
    <3> QED
      BY <2>3, <3>1
  <2> QED
    BY <2>2, <2>3
<1>6. /\ session_out' = [session_out EXCEPT ![n] = @ \o out]
      /\ WriteTunnel(n, packets)
      /\ tun_read' = tun_read
      /\ consumed' = CASE f.type # "Data" \/ IsDuplicate(mac[n], f) -> consumed
                       [] IsRefused(mac[n], f) -> [consumed EXCEPT ![n] = <<>>]
                       [] OTHER -> [consumed EXCEPT ![n] = f.payload]
  BY DEF TakeFrame
<1> HIDE DEF joined, out, packets
<1>7. session_out[n] \in Seq(Seq(Byte))
  BY <1>2
<1>8. session_out[n] \o <<joined>> = Append(session_out[n], joined)
  BY <1>3, <1>7
<1>9. session_out[n] \o <<>> = session_out[n]
  BY <1>7, ConcatEmptySeq
<1>10. /\ IF written THEN session_out'[n] = Append(session_out[n], joined)
          ELSE session_out' = session_out
       /\ session_out'[Other(n)] = session_out[Other(n)]
  <2>1. CASE written
    BY <1>1, <1>2, <1>4, <1>6, <1>8, <2>1
  <2>2. CASE ~written
    BY <1>1, <1>2, <1>4, <1>6, <1>9, <2>2
  <2> QED
    BY <2>1, <2>2
<1>11. IF written
       THEN \/ delivered'[n] = delivered[n] \cup {k} /\ cut' = cut
            \/ /\ delivered'[n] = delivered[n]
               /\ cut'[Other(n)] = cut[Other(n)] \cup {k}
               /\ cut'[n] = cut[n]
               /\ n \in FailingWriters
       ELSE UNCHANGED <<delivered, cut>>
  BY <1>1, <1>2, <1>5, <1>6 DEF WriteTunnel
<1>12. delivered'[Other(n)] = delivered[Other(n)]
  BY <1>1, <1>2, <1>6 DEF WriteTunnel
<1>13. /\ consumed'[Other(n)] = consumed[Other(n)]
       /\ IF f.type # "Data" \/ IsDuplicate(mac[n], f)
          THEN consumed'[n] = consumed[n]
          ELSE IsExpected(mac[n], f) => consumed'[n] = f.payload
  BY <1>1, <1>2, <1>6 DEF IsRefused
<1> QED
  BY <1>6, <1>10, <1>11, <1>12, <1>13 DEF joined

(* n takes the oldest frame: an ACK for its own direction, perhaps DATA of *)
(* the other one.                                                          *)
LEMMA TakeDirections ==
  ASSUME TypeOK, InFlightIsHead, NEW n \in Nodes, rx_fifo[n] # <<>>,
         TakeFrame(n, Head(rx_fifo[n])), PopFrame(n), QueueOK(n, Direction(n))
  PROVE  /\ Commits(n, Direction(n), Direction(n)')
         /\ Receives(Direction(Other(n)), Direction(Other(n))')
<1> DEFINE f == Head(rx_fifo[n])
           d == Direction(n)
           o == Direction(Other(n))
           m == mac[n]
           a == mac'[n]
<1>1. Other(n) \in Nodes /\ Other(Other(n)) = n /\ Other(n) # n
  BY DEF Nodes, Other
<1>2. d \in Directions
  BY DirectionType DEF TypeOK
<1>3. /\ mac \in [Nodes -> Mac] /\ m \in Mac /\ rx_fifo \in [Nodes -> Seq(Frame)]
      /\ f \in Frame /\ f = rx_fifo[n][1]
  BY HeadOfFifo, HeadTailProperties DEF TypeOK, RadioTypeOK
<1>4. mac' = [mac EXCEPT ![n] = AfterFrame(n, f)]
  BY DEF TakeFrame
<1>5. /\ a = ConsumeDataFrameLocked(CommitAckLocked(m, f.ack), f)
      /\ mac'[Other(n)] = mac[Other(n)]
  BY <1>1, <1>3, <1>4 DEF AfterFrame
<1>6. /\ rx_fifo'[n] = Tail(rx_fifo[n])
      /\ rx_fifo'[Other(n)] = rx_fifo[Other(n)]
  BY <1>1, <1>3 DEF PopFrame
<1>7. m.tx_in_flight_ =>
        /\ m.tx_inflight_seq_ = m.next_tx_seq_
        /\ m.read_buffer_ # <<>>
        /\ m.tx_inflight_payload_ = SubSeq(Head(m.read_buffer_), 1,
                                       Least(Len(Head(m.read_buffer_)), MaxPayload))
  BY DEF InFlightIsHead, FragmentIsHead
<1>8. m.tx_in_flight_ => m.tx_inflight_payload_ = Fragment(n, HeadNumber(d), HeadPos(d))
  <2>1. d.queue = m.read_buffer_
    BY DEF Direction
  <2> HIDE DEF d
  <2>2. m.tx_in_flight_ =>
          SubSeq(Head(d.queue), 1, Least(Len(Head(d.queue)), MaxPayload))
            = Fragment(n, HeadNumber(d), HeadPos(d))
    BY <1>2, <1>7, <2>1, HeadFragment DEF d
  <2> QED
    BY <1>7, <2>1, <2>2
<1> DEFINE joined == m.frame_buffer_ \o f.payload
           written == /\ f.type = "Data" /\ ~IsDuplicate(m, f)
                      /\ IsExpected(m, f)
                      /\ CompletesPacket(f) /\ IsValidIpPacket(joined)
           k == PacketNumber(joined)
<1>9. /\ IF written
         THEN /\ session_out'[n] = Append(session_out[n], joined)
              /\ \/ delivered'[n] = delivered[n] \cup {k} /\ cut' = cut
                 \/ /\ delivered'[n] = delivered[n]
                    /\ cut'[Other(n)] = cut[Other(n)] \cup {k}
                    /\ cut'[n] = cut[n]
         ELSE UNCHANGED <<session_out, delivered, cut>>
      /\ session_out'[Other(n)] = session_out[Other(n)]
      /\ delivered'[Other(n)] = delivered[Other(n)]
      /\ consumed'[Other(n)] = consumed[Other(n)]
      /\ IF f.type # "Data" \/ IsDuplicate(m, f)
         THEN consumed'[n] = consumed[n]
         ELSE IsExpected(m, f) => consumed'[n] = f.payload
      /\ tun_read' = tun_read
  BY <1>3, TakeFrameHistory
<1> HIDE DEF f, m, a
<1>10. /\ IF IsAckOfInFlight(m, f.ack)
          THEN /\ a.read_buffer_ = Consumed(m.read_buffer_, m.tx_inflight_payload_)
               /\ ~a.tx_in_flight_
               /\ a.next_tx_seq_ = AdvancedTxSeq(m.next_tx_seq_)
          ELSE /\ a.read_buffer_ = m.read_buffer_
               /\ a.tx_in_flight_ = m.tx_in_flight_
               /\ a.next_tx_seq_ = m.next_tx_seq_
       /\ IF f.type # "Data" \/ IsDuplicate(m, f)
          THEN a.frame_buffer_ = m.frame_buffer_ /\ a.last_rx_seq_ = m.last_rx_seq_
          ELSE IsExpected(m, f) =>
            /\ a.last_rx_seq_ = f.seq
            /\ a.frame_buffer_ = IF CompletesPacket(f) THEN <<>>
                                 ELSE m.frame_buffer_ \o f.payload
  BY <1>3, <1>5, AfterFrameFields
<1>11. IsAckOfInFlight(m, f.ack) <=> m.tx_in_flight_ /\ f.ack = m.next_tx_seq_
  BY <1>7 DEF IsAckOfInFlight
<1>12. cut'[n] = cut[n]
  BY <1>9
<1>13. Commits(n, d, d')
  <2>1. /\ d.queue = m.read_buffer_ /\ d'.queue = a.read_buffer_
        /\ d.seq = m.next_tx_seq_ /\ d'.seq = a.next_tx_seq_
        /\ d.flying = m.tx_in_flight_ /\ d'.flying = a.tx_in_flight_
        /\ d'.read = d.read /\ d'.cut = d.cut /\ d'.frames = d.frames
        /\ d.acks = rx_fifo[n] /\ d'.acks = Tail(rx_fifo[n])
        /\ SameReceiver(d, d')
    BY <1>1, <1>5, <1>6, <1>9, <1>12 DEF Direction, SameReceiver, m, a
  <2>2. d.acks # <<>> /\ d.acks[1] = f
    BY <1>3, <2>1
  <2> HIDE DEF d
  <2>3. IF d.flying /\ d.acks[1].ack = d.seq
        THEN /\ d'.queue = Consumed(d.queue, Fragment(n, HeadNumber(d), HeadPos(d)))
             /\ ~d'.flying
             /\ d'.seq = AdvancedTxSeq(d.seq)
        ELSE d'.queue = d.queue /\ d'.flying = d.flying /\ d'.seq = d.seq
    BY <1>8, <1>10, <1>11, <2>1, <2>2
  <2> QED
    BY <2>1, <2>2, <2>3 DEF Commits
<1>14. Receives(o, o')
  <2>1. /\ o.frames = rx_fifo[n] /\ o'.frames = Tail(rx_fifo[n])
        /\ SameSender(o, o') /\ o'.acks = o.acks
        /\ o.buffer = m.frame_buffer_ /\ o'.buffer = a.frame_buffer_
        /\ o.last = m.last_rx_seq_ /\ o'.last = a.last_rx_seq_
        /\ o.consumed = consumed[n] /\ o'.consumed = consumed'[n]
        /\ o.out = session_out[n] /\ o'.out = session_out'[n]
        /\ o.delivered = delivered[n] /\ o'.delivered = delivered'[n]
        /\ o.cut = cut[Other(n)] /\ o'.cut = cut'[Other(n)]
    BY <1>1, <1>5, <1>6, <1>9 DEF Direction, SameSender, m, a
  <2>2. o.frames # <<>> /\ o.frames[1] = f
    BY <1>3, <2>1
  <2>3. joined = Joined(o, f)
    BY <2>1 DEF Joined
  <2> HIDE DEF o, joined
  <2>4. IsDuplicate(m, f) <=> o.last # NoSeq /\ f.seq = o.last
    BY <2>1 DEF IsDuplicate
  <2>5. IsExpected(m, f) <=> f.seq # NoSeq /\ (o.last # NoSeq => f.seq = NextSeq(o.last))
    BY <2>1 DEF IsExpected
  <2>6. CASE f.type # "Data" \/ IsDuplicate(m, f)
    <3>1. SameReceiver(o, o') /\ o'.cut = o.cut
      BY <1>9, <1>10, <2>1, <2>6 DEF SameReceiver
    <3> QED
      BY <2>1, <2>2, <2>4, <2>6, <3>1 DEF Receives
  <2>7. CASE ~(f.type # "Data" \/ IsDuplicate(m, f))
    <3>1. IsExpected(m, f) =>
            /\ o'.last = f.seq
            /\ o'.consumed = f.payload
            /\ o'.buffer = IF CompletesPacket(f) THEN <<>> ELSE Joined(o, f)
      BY <1>9, <1>10, <2>1, <2>3, <2>7 DEF joined
    <3>2. IsExpected(m, f) => (written <=> Writes(o, f))
      BY <2>3, <2>7 DEF Writes
    <3> HIDE DEF written
    <3>3. IsExpected(m, f) =>
            IF Writes(o, f)
            THEN /\ o'.out = Append(o.out, Joined(o, f))
                 /\ LET j == PacketNumber(Joined(o, f))
                    IN  \/ o'.delivered = o.delivered \cup {j} /\ o'.cut = o.cut
                        \/ o'.delivered = o.delivered /\ o'.cut = o.cut \cup {j}
            ELSE o'.out = o.out /\ o'.delivered = o.delivered /\ o'.cut = o.cut
      BY <1>9, <2>1, <2>3, <3>2
    <3> QED
      BY <2>1, <2>2, <2>4, <2>5, <2>7, <3>1, <3>3 DEF Receives
  <2> QED
    BY <2>6, <2>7, Zenon
<1> QED
  BY <1>13, <1>14

(* n leaves the session. *)
LEMMA ClearedFields ==
  ASSUME NEW m \in Mac
  PROVE  LET c == ClearedMac(m)
         IN  /\ c.read_buffer_ = m.read_buffer_ /\ c.next_tx_seq_ = 1 /\ ~c.tx_in_flight_
             /\ c.frame_buffer_ = <<>> /\ c.last_rx_seq_ = NoSeq
             /\ ClearedMac(c) = c /\ ShortenedHead(c) = ShortenedHead(m)
BY DEF ClearedMac, NewMac, Mac, ShortenedHead

LEMMA ClearDirections ==
  ASSUME TypeOK, NEW n \in Nodes, ClearSession(n)
  PROVE  /\ ClearsSender(Direction(n), Direction(n)')
         /\ SameReceiver(Direction(n), Direction(n)')
         /\ ClearsReceiver(Direction(Other(n)), Direction(Other(n))')
         /\ Cleared(n)'
         /\ Cleared(Other(n)) => Cleared(Other(n))'
<1>1. Other(n) \in Nodes /\ Other(Other(n)) = n /\ Other(n) # n
  BY DEF Nodes, Other
<1>2. /\ mac \in [Nodes -> Mac] /\ mac[n] \in Mac
      /\ session_out \in [Nodes -> Seq(Seq(Byte))] /\ consumed \in [Nodes -> Seq(Byte)]
      /\ cut \in [Nodes -> SUBSET Nat]
  BY DEF TypeOK, RadioTypeOK
<1>3. /\ mac'[n] = ClearedMac(mac[n]) /\ mac'[Other(n)] = mac[Other(n)]
      /\ session_out'[n] = <<>> /\ session_out'[Other(n)] = session_out[Other(n)]
      /\ consumed'[n] = <<>> /\ consumed'[Other(n)] = consumed[Other(n)]
      /\ cut'[n] = cut[n] \cup ShortenedHead(mac[n]) /\ cut'[Other(n)] = cut[Other(n)]
      /\ tun_read' = tun_read /\ delivered' = delivered
  BY <1>1, <1>2 DEF ClearSession
<1> DEFINE c == ClearedMac(mac[n])
<1>4. /\ c.read_buffer_ = mac[n].read_buffer_ /\ c.next_tx_seq_ = 1 /\ ~c.tx_in_flight_
      /\ c.frame_buffer_ = <<>> /\ c.last_rx_seq_ = NoSeq
      /\ ClearedMac(c) = c /\ ShortenedHead(c) = ShortenedHead(mac[n])
  BY <1>2, ClearedFields
<1>5. mac'[n] = c
  BY <1>3
<1> HIDE DEF c
<1>6. ClearsSender(Direction(n), Direction(n)')
  BY <1>1, <1>3, <1>4, <1>5 DEF Direction, ClearsSender
<1>7. ClearsReceiver(Direction(Other(n)), Direction(Other(n))')
  BY <1>1, <1>3 DEF Direction, ClearsReceiver, SameSender
<1>8. Cleared(n)'
  BY <1>3, <1>4, <1>5 DEF Cleared
<1>9. Cleared(Other(n)) => Cleared(Other(n))'
  BY <1>3 DEF Cleared
<1>10. SameReceiver(Direction(n), Direction(n)')
  BY <1>1, <1>3 DEF Direction, SameReceiver
<1> QED
  BY <1>6, <1>7, <1>8, <1>9, <1>10

LEMMA LoseDirections ==
  ASSUME TypeOK, NEW n \in Nodes, LoseProcess(n)
  PROVE  /\ LosesSender(Direction(n), Direction(n)')
         /\ SameReceiver(Direction(n), Direction(n)')
         /\ Direction(n)'.frames = Direction(n).frames
         /\ ClearsReceiver(Direction(Other(n)), Direction(Other(n))')
         /\ Direction(Other(n))'.acks = Direction(Other(n)).acks
         /\ Cleared(n)'
         /\ Cleared(Other(n)) => Cleared(Other(n))'
         /\ rx_fifo'[n] = <<>> /\ rx_fifo'[Other(n)] = rx_fifo[Other(n)]
         /\ ~listening'[n]
<1>1. Other(n) \in Nodes /\ Other(Other(n)) = n /\ Other(n) # n
  BY DEF Nodes, Other
<1>2. /\ mac \in [Nodes -> Mac] /\ mac[n] \in Mac
      /\ session_out \in [Nodes -> Seq(Seq(Byte))] /\ consumed \in [Nodes -> Seq(Byte)]
      /\ cut \in [Nodes -> SUBSET Nat] /\ rx_fifo \in [Nodes -> Seq(Frame)]
      /\ listening \in [Nodes -> BOOLEAN]
  BY DEF TypeOK, RadioTypeOK
<1>3. /\ mac'[n] = NewMac /\ mac'[Other(n)] = mac[Other(n)]
      /\ session_out'[n] = <<>> /\ session_out'[Other(n)] = session_out[Other(n)]
      /\ consumed'[n] = <<>> /\ consumed'[Other(n)] = consumed[Other(n)]
      /\ cut'[n] = cut[n] \cup
           {mac[n].read_buffer_[i][1].pkt : i \in DOMAIN mac[n].read_buffer_}
      /\ cut'[Other(n)] = cut[Other(n)]
      /\ rx_fifo'[n] = <<>> /\ rx_fifo'[Other(n)] = rx_fifo[Other(n)]
      /\ ~listening'[n]
      /\ tun_read' = tun_read /\ delivered' = delivered
  BY <1>1, <1>2 DEF LoseProcess
<1>4. /\ NewMac.read_buffer_ = <<>> /\ NewMac.next_tx_seq_ = 1 /\ ~NewMac.tx_in_flight_
      /\ ClearedMac(NewMac) = NewMac /\ ShortenedHead(NewMac) = {}
  BY DEF NewMac, ClearedMac, ShortenedHead
<1>5. LosesSender(Direction(n), Direction(n)')
  BY <1>1, <1>3, <1>4 DEF Direction, LosesSender
<1>6. SameReceiver(Direction(n), Direction(n)') /\ Direction(n)'.frames = Direction(n).frames
  BY <1>1, <1>3 DEF Direction, SameReceiver
<1>7. /\ ClearsReceiver(Direction(Other(n)), Direction(Other(n))')
      /\ Direction(Other(n))'.acks = Direction(Other(n)).acks
  BY <1>1, <1>3 DEF Direction, ClearsReceiver, SameSender
<1>8. Cleared(n)'
  BY <1>3, <1>4 DEF Cleared
<1>9. Cleared(Other(n)) => Cleared(Other(n))'
  BY <1>3 DEF Cleared
<1> QED
  BY <1>3, <1>5, <1>6, <1>7, <1>8, <1>9

(* A packet pushed in the meantime leaves a node at the session's start. *)
LEMMA TunnelCleared ==
  ASSUME TypeOK, NEW n \in Nodes, TunnelThread(n), NEW o \in Nodes, Cleared(o)
  PROVE  Cleared(o)'
<1> DEFINE k == tun_read[n] + 1
           m == mac[n]
<1>1. /\ mac \in [Nodes -> Mac] /\ m \in Mac /\ tun_read[n] \in Nat
      /\ k \in Nat /\ Packet(n, k) \in QueuedPacket
  BY NextPacketType DEF TypeOK, RadioTypeOK
<1>2. UNCHANGED <<session_out, consumed, cut>>
  BY DEF TunnelThread
<1>3. CASE o # n
  BY <1>1, <1>2, <1>3 DEF TunnelThread, Cleared
<1>4. CASE o = n
  <2>1. mac'[n] = [m EXCEPT !.read_buffer_ = Append(m.read_buffer_, Packet(n, k))]
    BY <1>1 DEF TunnelThread
  <2>2. m = ClearedMac(m) /\ ShortenedHead(m) \subseteq cut[n]
    BY <1>4 DEF Cleared
  <2>3. k \in 1..Len(Traffic[n])
    BY <1>1, TrafficType DEF TunnelThread
  <2>4. Packet(n, k)[1].pos = 1
    <3>1. Traffic[n][k] \in Nat \ {0}
      BY <2>3, ElementOfSeq, RadioAssumption DEF RadioAssumption
    <3> QED
      BY <3>1 DEF Packet
  <2> HIDE DEF k, m
  <2>5. mac'[n] = ClearedMac(mac'[n])
    BY <1>1, <2>1, <2>2 DEF ClearedMac, NewMac, Mac
  <2>6. mac'[n].read_buffer_ = Append(m.read_buffer_, Packet(n, k))
    BY <1>1, <2>1 DEF Mac
  <2>7. m.read_buffer_ \in Seq(QueuedPacket)
    BY <1>1 DEF Mac
  <2>8. m.read_buffer_ # <<>> => Head(mac'[n].read_buffer_) = Head(m.read_buffer_)
    BY <1>1, <2>6, <2>7, HeadOfAppend
  <2>9. m.read_buffer_ = <<>> => Head(mac'[n].read_buffer_) = Packet(n, k)
    BY <2>6
  <2>10. ShortenedHead(mac'[n]) \subseteq ShortenedHead(m)
    <3>1. CASE m.read_buffer_ = <<>>
      BY <2>4, <2>9, <3>1 DEF ShortenedHead
    <3>2. CASE m.read_buffer_ # <<>>
      BY <2>8, <3>2 DEF ShortenedHead
    <3> QED
      BY <3>1, <3>2
  <2> QED
    BY <1>2, <1>4, <2>2, <2>5, <2>10 DEF Cleared
<1> QED
  BY <1>3, <1>4

(* Both ends at the start of a session, and no frame of another one on its *)
(* way.                                                                    *)
LEMMA ClearedStart ==
  ASSUME TypeOK, NEW n \in Nodes, NEW e \in Directions, QueueOK(n, e), HistoryOK(n, e),
         Cleared(n), Cleared(Other(n)),
         SameSender(Direction(n), e), SameReceiver(Direction(n), e), e.cut = cut[n],
         \A i \in DOMAIN e.frames : e.frames[i].type # "Data",
         \A i \in DOMAIN e.acks : e.acks[i].ack = NoSeq
  PROVE  Due(n, e)
<1> DEFINE o == Other(n)
<1>1. o \in Nodes /\ mac[n] \in Mac /\ mac[o] \in Mac
  BY OtherIsNode DEF TypeOK, RadioTypeOK
<1>2. mac[n] = ClearedMac(mac[n]) /\ mac[o] = ClearedMac(mac[o])
      /\ session_out[o] = <<>> /\ ShortenedHead(mac[n]) \subseteq cut[n]
  BY DEF Cleared
<1> HIDE DEF o
<1>3. /\ mac[n].next_tx_seq_ = 1
      /\ mac[o].frame_buffer_ = <<>> /\ mac[o].last_rx_seq_ = NoSeq
  BY <1>1, <1>2, ClearedFields
<1>4. /\ e.queue = mac[n].read_buffer_ /\ e.seq = 1 /\ e.last = NoSeq /\ e.buffer = <<>>
      /\ e.out = <<>>
  BY <1>2, <1>3 DEF Direction, SameSender, SameReceiver, o
<1>5. HeadPos(e) > 1 => HeadNumber(e) \in e.cut
  <2> HAVE HeadPos(e) > 1
  <2>1. e.queue # <<>> /\ e.queue[1][1].pos > 1
    BY DEF HeadPos
  <2>2. e.queue \in Seq(QueuedPacket)
    BY DEF Directions
  <2>3. Head(e.queue) = e.queue[1]
    BY <2>1, <2>2, HeadTailProperties
  <2>4. Len(e.queue) \in Nat /\ Len(e.queue) >= 1
    BY <2>1, <2>2, EmptySeq, LenProperties
  <2>5. 1 \in 1..Len(e.queue)
    BY <2>4
  <2>6. e.queue[1][1].pkt = HeadNumber(e) + 1 - 1
    BY <2>5, QueuedNumbers
  <2>7. HeadNumber(e) \in Nat
    BY HeadPlace
  <2>8. e.queue[1][1].pkt = HeadNumber(e)
    BY <2>6, <2>7
  <2> QED
    BY <1>2, <1>4, <2>1, <2>3, <2>8 DEF ShortenedHead
<1> QED
  BY <1>4, <1>5, SessionStart

-----------------------------------------------------------------------------
(* The steps of the threads.                                               *)

(* A step that leaves alone what the directions are made of. *)
LEMMA QuietStep ==
  ASSUME UNCHANGED <<mac, rx_fifo, tun_read, session_out, consumed, delivered, cut>>,
         PacketsOK
  PROVE  /\ PacketsOK'
         /\ \A n \in Nodes : Synchronised(n, Direction(n)) => Synchronised(n, Direction(n))'
<1>1. \A n \in Nodes : Direction(n)' = Direction(n)
  BY SameDirection
<1> QED
  BY <1>1 DEF PacketsOK

InStep == \A n \in Nodes : Synchronised(n, Direction(n))

LEMMA TwoNodes ==
  ASSUME NEW n \in Nodes
  PROVE  Nodes = {n, Other(n)}
BY DEF Nodes, Other

LEMMA TransmitStep ==
  ASSUME TypeOK, TypeOK', InFlightIsHead, PacketsOK, NEW n \in Nodes, NEW f, Transmits(n, f)
  PROVE  /\ PacketsOK'
         /\ InStep => InStep'
         /\ AcksAreTrue(n, Direction(n)) => AcksAreTrue(n, Direction(n))'
         /\ \A k, p : Expects(Other(n), Direction(Other(n)), k, p)
                        => Expects(Other(n), Direction(Other(n))', k, p)
<1> DEFINE o == Other(n)
           d == Direction(n)
           e == Direction(n)'
           c == Direction(Other(n))
           b == Direction(Other(n))'
<1>1. o \in Nodes /\ Nodes = {n, o}
  BY DirectionTypes, TwoNodes
<1>2. d \in Directions /\ e \in Directions /\ c \in Directions /\ b \in Directions
  BY <1>1, DirectionTypes
<1>3. QueueOK(n, d) /\ HistoryOK(n, d) /\ QueueOK(o, c) /\ HistoryOK(o, c)
  BY <1>1 DEF PacketsOK
<1>4. Sends(n, d, e, f) /\ Answers(c, b, f)
  BY <1>3, TransmitDirections
<1>5. f \in Frame
  BY DEF Transmits
<1> HIDE DEF o, d, e, c, b
<1>6. /\ QueueOK(n, e) /\ HistoryOK(n, e)
      /\ AcksAreTrue(n, d) => AcksAreTrue(n, e)
  BY <1>2, <1>3, <1>4, SendQueue
<1>7. /\ QueueOK(o, b) /\ HistoryOK(o, b)
      /\ \A k, p : Expects(o, c, k, p) => Expects(o, b, k, p)
      /\ Synchronised(o, c) => Synchronised(o, b)
  BY <1>1, <1>2, <1>3, <1>4, <1>5, AnswerDirection
<1>8. Synchronised(n, d) => Synchronised(n, e)
  BY <1>2, <1>3, <1>4, <1>5, SendDirection
<1>9. PacketsOK'
  BY <1>1, <1>6, <1>7 DEF PacketsOK, e, b, o
<1>10. InStep => InStep'
  BY <1>1, <1>7, <1>8 DEF InStep, d, e, b, c, o
<1> QED
  BY <1>6, <1>7, <1>9, <1>10 DEF d, e, b, c, o

LEMMA TakeStep ==
  ASSUME TypeOK, TypeOK', InFlightIsHead, PacketsOK, NEW n \in Nodes, rx_fifo[n] # <<>>,
         TakeFrame(n, Head(rx_fifo[n])), PopFrame(n)
  PROVE  /\ InStep => PacketsOK' /\ InStep'
         /\ \A k, p : AcksAreTrue(n, Direction(n))
                        /\ Expects(Other(n), Direction(Other(n)), k, p)
                        /\ Head(rx_fifo[n]).type # "Reset"
              => /\ PacketsOK'
                 /\ AcksAreTrue(n, Direction(n))'
                 /\ \E k2 \in 1..(Len(Traffic[Other(n)]) + 1) : \E p2 \in 1..Length(Other(n), k2) :
                      Expects(Other(n), Direction(Other(n))', k2, p2)
<1> DEFINE o == Other(n)
           d == Direction(n)
           e == Direction(n)'
           c == Direction(Other(n))
           b == Direction(Other(n))'
<1>1. o \in Nodes /\ Nodes = {n, o}
  BY DirectionTypes, TwoNodes
<1>2. d \in Directions /\ e \in Directions /\ c \in Directions /\ b \in Directions
  BY <1>1, DirectionTypes
<1>3. QueueOK(n, d) /\ HistoryOK(n, d) /\ QueueOK(o, c) /\ HistoryOK(o, c)
  BY <1>1 DEF PacketsOK
<1>4. /\ Commits(n, d, e) /\ Receives(c, b)
      /\ d.acks[1] = Head(rx_fifo[n])
  <2>1. rx_fifo[n] \in Seq(Frame) /\ d.acks = rx_fifo[n]
    BY DEF TypeOK, RadioTypeOK, Direction
  <2>2. Head(rx_fifo[n]) = rx_fifo[n][1]
    BY <2>1, HeadTailProperties
  <2> QED
    BY <1>3, <2>1, <2>2, TakeDirections
<1> HIDE DEF o, d, e, c, b
<1>5. ASSUME NEW k, NEW p, Expects(o, c, k, p)
      PROVE  /\ QueueOK(o, b) /\ HistoryOK(o, b)
             /\ \E k2 \in 1..(Len(Traffic[o]) + 1) : \E p2 \in 1..Length(o, k2) :
                  Expects(o, b, k2, p2)
  BY <1>1, <1>2, <1>3, <1>4, <1>5, ReceiveDirection
<1>6. ASSUME InStep
      PROVE  PacketsOK' /\ InStep'
  <2>1. Synchronised(n, d) /\ Synchronised(o, c)
    BY <1>1, <1>6 DEF InStep, d, c, o
  <2>2. QueueOK(n, e) /\ HistoryOK(n, e) /\ Synchronised(n, e)
    BY <1>2, <1>3, <1>4, <2>1, CommitDirection
  <2>3. \E k, p : Expects(o, c, k, p)
    BY <1>1, <1>2, <1>3, <2>1, SynchronisedAcks
  <2>4. QueueOK(o, b) /\ HistoryOK(o, b)
    BY <1>5, <2>3
  <2>5. Synchronised(o, b)
    BY <1>1, <1>2, <1>3, <1>4, <2>1, ReceiveSynchronised
  <2> QED
    BY <1>1, <2>2, <2>4, <2>5 DEF PacketsOK, InStep, e, b, o
<1>7. ASSUME NEW k, NEW p, AcksAreTrue(n, d), Expects(o, c, k, p),
             Head(rx_fifo[n]).type # "Reset"
      PROVE  PacketsOK' /\ AcksAreTrue(n, e)
  <2>1. QueueOK(n, e) /\ HistoryOK(n, e) /\ AcksAreTrue(n, e)
    BY <1>2, <1>3, <1>4, <1>7, CommitLeftBehind
  <2>2. QueueOK(o, b) /\ HistoryOK(o, b)
    BY <1>5, <1>7
  <2> QED
    BY <1>1, <2>1, <2>2 DEF PacketsOK, e, b, o
<1> QED
  BY <1>5, <1>6, <1>7 DEF d, e, b, c, o

LEMMA TunnelStep ==
  ASSUME TypeOK, TypeOK', PacketsOK, NEW n \in Nodes, TunnelThread(n)
  PROVE  /\ PacketsOK'
         /\ InStep => InStep'
         /\ \A o \in Nodes : /\ AcksAreTrue(o, Direction(o)) => AcksAreTrue(o, Direction(o))'
                             /\ \A k, p : Expects(o, Direction(o), k, p)
                                            => Expects(o, Direction(o)', k, p)
<1> DEFINE o == Other(n)
           d == Direction(n)
           e == Direction(n)'
<1>1. o \in Nodes /\ Nodes = {n, o}
  BY DirectionTypes, TwoNodes
<1>2. d \in Directions /\ e \in Directions
  BY DirectionTypes
<1>3. QueueOK(n, d) /\ HistoryOK(n, d)
  BY DEF PacketsOK
<1>4. Pushes(n, d, e) /\ Direction(o)' = Direction(o)
  BY TunnelDirections
<1> HIDE DEF o, d, e
<1>5. /\ QueueOK(n, e) /\ HistoryOK(n, e)
      /\ \A k, p : Expects(n, d, k, p) => Expects(n, e, k, p)
      /\ Synchronised(n, d) => Synchronised(n, e)
      /\ AcksAreTrue(n, d) => AcksAreTrue(n, e)
  BY <1>2, <1>3, <1>4, PushDirection
<1>6. PacketsOK'
  BY <1>1, <1>4, <1>5 DEF PacketsOK, e
<1>7. InStep => InStep'
  BY <1>1, <1>4, <1>5 DEF InStep, d, e
<1> QED
  BY <1>1, <1>4, <1>5, <1>6, <1>7 DEF d, e

LEMMA ClearStep ==
  ASSUME TypeOK, TypeOK', PacketsOK, NEW n \in Nodes, ClearSession(n)
  PROVE  /\ PacketsOK'
         /\ UNCHANGED rx_fifo[Other(n)] =>
              /\ \A k, p : Expects(n, Direction(n), k, p) => Expects(n, Direction(n)', k, p)
              /\ AcksAreTrue(Other(n), Direction(Other(n)))
                   => AcksAreTrue(Other(n), Direction(Other(n)))'
<1> DEFINE o == Other(n)
           d == Direction(n)
           e == Direction(n)'
           c == Direction(Other(n))
           b == Direction(Other(n))'
<1>1. o \in Nodes /\ Nodes = {n, o}
  BY DirectionTypes, TwoNodes
<1>2. d \in Directions /\ e \in Directions /\ c \in Directions /\ b \in Directions
  BY <1>1, DirectionTypes
<1>3. QueueOK(n, d) /\ HistoryOK(n, d) /\ QueueOK(o, c) /\ HistoryOK(o, c)
  BY <1>1 DEF PacketsOK
<1>4. ClearsSender(d, e) /\ ClearsReceiver(c, b) /\ SameReceiver(d, e)
  BY ClearDirections
<1>5. UNCHANGED rx_fifo[o] => e.frames = d.frames /\ b.acks = c.acks
  BY DEF Direction
<1> HIDE DEF o, d, e, c, b
<1>6. QueueOK(n, e) /\ HistoryOK(n, e)
  BY <1>2, <1>3, <1>4, ClearSender
<1>7. QueueOK(o, b) /\ HistoryOK(o, b)
  BY <1>1, <1>2, <1>3, <1>4, ClearReceiver
<1>8. /\ HeadNumber(d) \in Nat /\ HeadNumber(e) \in Nat /\ HeadNumber(d) <= HeadNumber(e)
      /\ d.read <= e.read /\ d.cut \subseteq e.cut
  <2>1. HeadNumber(d) \in Nat /\ d.read \in Nat
    BY <1>2, <1>3, HeadPlace DEF Directions
  <2>2. HeadNumber(e) = HeadNumber(d) /\ e.read = d.read /\ d.cut \subseteq e.cut
    BY <1>4 DEF ClearsSender, HeadNumber
  <2> QED
    BY <2>1, <2>2
<1>9. ASSUME UNCHANGED rx_fifo[o]
      PROVE  /\ \A k, p : Expects(n, d, k, p) => Expects(n, e, k, p)
             /\ AcksAreTrue(o, c) => AcksAreTrue(o, b)
  <2>1. \A k, p : Expects(n, d, k, p) => Expects(n, e, k, p)
    BY <1>2, <1>4, <1>5, <1>8, <1>9, ExpectsStays
  <2>2. SameSender(c, b) /\ c.delivered \subseteq b.delivered /\ c.cut \subseteq b.cut
    BY <1>4 DEF ClearsReceiver
  <2> QED
    BY <1>5, <1>9, <2>1, <2>2, AcksStayTrue
<1>10. PacketsOK'
  BY <1>1, <1>6, <1>7 DEF PacketsOK, e, b, o
<1> QED
  BY <1>9, <1>10 DEF d, e, b, c, o

(* What n had under way lives on in what the other end may still read. *)
LEMMA LoseStep ==
  ASSUME TypeOK, TypeOK', PacketsOK, NEW n \in Nodes, LoseProcess(n)
  PROVE  /\ PacketsOK'
         /\ \A k, p : Expects(n, Direction(n), k, p) => Expects(n, Direction(n)', k, p)
         /\ AcksAreTrue(Other(n), Direction(Other(n)))
              => AcksAreTrue(Other(n), Direction(Other(n)))'
<1> DEFINE o == Other(n)
           d == Direction(n)
           e == Direction(n)'
           c == Direction(Other(n))
           b == Direction(Other(n))'
<1>1. o \in Nodes /\ Nodes = {n, o}
  BY DirectionTypes, TwoNodes
<1>2. d \in Directions /\ e \in Directions /\ c \in Directions /\ b \in Directions
  BY <1>1, DirectionTypes
<1>3. QueueOK(n, d) /\ HistoryOK(n, d) /\ QueueOK(o, c) /\ HistoryOK(o, c)
  BY <1>1 DEF PacketsOK
<1>4. /\ LosesSender(d, e) /\ SameReceiver(d, e) /\ e.frames = d.frames
      /\ ClearsReceiver(c, b) /\ b.acks = c.acks
  BY LoseDirections
<1> HIDE DEF o, d, e, c, b
<1>5. /\ QueueOK(n, e) /\ HistoryOK(n, e)
      /\ HeadNumber(e) \in Nat /\ HeadNumber(d) <= HeadNumber(e)
  BY <1>2, <1>3, <1>4, LoseSender
<1>6. QueueOK(o, b) /\ HistoryOK(o, b)
  BY <1>1, <1>2, <1>3, <1>4, ClearReceiver
<1>7. HeadNumber(d) \in Nat
  BY <1>2, <1>3, HeadPlace
<1>8. d.read \in Nat /\ d.read <= e.read /\ d.cut \subseteq e.cut
  BY <1>2, <1>4 DEF LosesSender, Directions
<1>9. \A k, p : Expects(n, d, k, p) => Expects(n, e, k, p)
  BY <1>2, <1>4, <1>5, <1>7, <1>8, ExpectsStays
<1>10. SameSender(c, b) /\ c.delivered \subseteq b.delivered /\ c.cut \subseteq b.cut
  BY <1>4 DEF ClearsReceiver
<1>11. AcksAreTrue(o, c) => AcksAreTrue(o, b)
  BY <1>4, <1>10, AcksStayTrue
<1>12. PacketsOK'
  BY <1>1, <1>5, <1>6 DEF PacketsOK, e, b, o
<1> QED
  BY <1>9, <1>11, <1>12 DEF d, e, b, c, o

(* Frames come and go, and nothing else changes. *)
LEMMA FramesStep ==
  ASSUME TypeOK, TypeOK', PacketsOK,
         UNCHANGED <<mac, tun_read, session_out, consumed, delivered, cut>>
  PROVE  /\ PacketsOK'
         /\ \A n \in Nodes : Cleared(n) => Cleared(n)'
         /\ \A n \in Nodes : UNCHANGED rx_fifo[Other(n)] =>
              \A k, p : Expects(n, Direction(n), k, p) => Expects(n, Direction(n)', k, p)
         /\ \A n \in Nodes : UNCHANGED rx_fifo[n] =>
              (AcksAreTrue(n, Direction(n)) => AcksAreTrue(n, Direction(n))')
<1>1. ASSUME NEW n \in Nodes
      PROVE  /\ QueueOK(n, Direction(n))' /\ HistoryOK(n, Direction(n))'
             /\ UNCHANGED rx_fifo[Other(n)] =>
                  \A k, p : Expects(n, Direction(n), k, p) => Expects(n, Direction(n)', k, p)
             /\ UNCHANGED rx_fifo[n] =>
                  (AcksAreTrue(n, Direction(n)) => AcksAreTrue(n, Direction(n))')
  <2> DEFINE d == Direction(n)
             e == Direction(n)'
  <2>1. d \in Directions /\ e \in Directions
    BY <1>1, DirectionTypes
  <2>2. QueueOK(n, d) /\ HistoryOK(n, d)
    BY <1>1 DEF PacketsOK
  <2>3. SameSender(d, e) /\ SameReceiver(d, e) /\ e.cut = d.cut
    BY DEF SameSender, SameReceiver, Direction
  <2>4. /\ UNCHANGED rx_fifo[Other(n)] => e.frames = d.frames
        /\ UNCHANGED rx_fifo[n] => e.acks = d.acks
    BY DEF Direction
  <2> HIDE DEF d, e
  <2>5. QueueOK(n, e) /\ HistoryOK(n, e)
    BY <1>1, <2>1, <2>2, <2>3, FramesChange
  <2>6. /\ HeadNumber(d) \in Nat /\ HeadNumber(e) \in Nat /\ HeadNumber(d) <= HeadNumber(e)
        /\ d.read <= e.read /\ d.cut \subseteq e.cut /\ d.delivered \subseteq e.delivered
    <3>1. HeadNumber(d) \in Nat /\ d.read \in Nat
      BY <1>1, <2>1, <2>2, HeadPlace DEF Directions
    <3>2. HeadNumber(e) = HeadNumber(d) /\ e.read = d.read
      BY <2>3 DEF SameSender, HeadNumber
    <3> QED
      BY <2>3, <3>1, <3>2 DEF SameReceiver
  <2>7. e.frames = d.frames => \A k, p : Expects(n, d, k, p) => Expects(n, e, k, p)
    BY <1>1, <2>1, <2>3, <2>6, ExpectsStays
  <2>8. e.acks = d.acks => (AcksAreTrue(n, d) => AcksAreTrue(n, e))
    BY <2>3, <2>6, AcksStayTrue
  <2> QED
    BY <2>4, <2>5, <2>7, <2>8 DEF d, e
<1>2. \A n \in Nodes : Cleared(n) => Cleared(n)'
  BY DEF Cleared
<1> QED
  BY <1>1, <1>2 DEF PacketsOK

(* What the threads send. *)
LEMMA RequestIsSent ==
  ASSUME TypeOK, ExchangeNeverResets, SendRequest
  PROVE  /\ Transmits(Self, ChooseCoordinatorTxFrame)
         /\ ChooseCoordinatorTxFrame.type # "Reset"
<1> DEFINE f == ChooseCoordinatorTxFrame
           m == WithFragmentInFlight(mac[Self])
<1>1. f \in Frame /\ Other(Self) = Peer /\ mac[Self] \in Mac
  BY ChooseCoordinatorTxFrameType, OtherNodes, NodeNames DEF TypeOK, RadioTypeOK
<1>2. m.last_rx_seq_ = mac[Self].last_rx_seq_
  BY <1>1, BuiltMac
<1>3. state_ # "ResetSync"
  BY DEF SendRequest, ExchangeNeverResets
<1> HIDE DEF m
<1>4. /\ f.ack = mac[Self].last_rx_seq_
      /\ f.type = "Data" => m.tx_in_flight_ /\ f = DataFrame(m)
      /\ f.type # "Reset"
  BY <1>2, <1>3 DEF ChooseCoordinatorTxFrame, GrantFrame, ControlFrame, DataFrame, m
<1>5. /\ mac' = IF f.type = "Data" THEN [mac EXCEPT ![Self] = WithFragmentInFlight(@)]
                ELSE mac
      /\ rx_fifo' \in {rx_fifo, [rx_fifo EXCEPT ![Other(Self)] = Append(@, f)]}
      /\ UNCHANGED <<tun_read, session_out, consumed, delivered, cut>>
  BY DEF SendRequest, Transmit
<1> HIDE DEF f
<1> QED
  BY <1>1, <1>4, <1>5 DEF Transmits, f, m

LEMMA ReplyIsSent ==
  ASSUME TypeOK, SendReply
  PROVE  /\ Transmits(Peer, ChoosePeerResponse)
         /\ ChoosePeerResponse.type # "Reset"
         /\ rx_fifo'[Peer] = rx_fifo[Peer]
<1> DEFINE f == ChoosePeerResponse
           m == WithFragmentInFlight(mac[Peer])
<1>1. f \in Frame /\ Other(Peer) = Self /\ mac[Peer] \in Mac /\ Self # Peer
      /\ rx_fifo \in [Nodes -> Seq(Frame)]
  BY ChoosePeerResponseType, OtherNodes, NodeNames DEF TypeOK, RadioTypeOK
<1>2. m.last_rx_seq_ = mac[Peer].last_rx_seq_
  BY <1>1, BuiltMac
<1> HIDE DEF m
<1>3. /\ f.ack = mac[Peer].last_rx_seq_
      /\ f.type = "Data" => m.tx_in_flight_ /\ f = DataFrame(m)
      /\ f.type # "Reset"
  BY <1>2 DEF ChoosePeerResponse, ControlFrame, DataFrame, m
<1>4. /\ mac' = IF f.type = "Data" THEN [mac EXCEPT ![Peer] = WithFragmentInFlight(@)]
                ELSE mac
      /\ rx_fifo' \in {rx_fifo, [rx_fifo EXCEPT ![Other(Peer)] = Append(@, f)]}
      /\ UNCHANGED <<tun_read, session_out, consumed, delivered, cut>>
  BY DEF SendReply, Transmit
<1> HIDE DEF f
<1>5. Transmits(Peer, f)
  BY <1>1, <1>3, <1>4 DEF Transmits, m
<1>6. rx_fifo'[Peer] = rx_fifo[Peer]
  BY <1>1, <1>4, NodeNames
<1> QED
  BY <1>3, <1>5, <1>6 DEF f

-----------------------------------------------------------------------------
(* Frames in the FIFO of a node that is to be reset.                       *)

AllResets(s) == \A i \in DOMAIN s : s[i].type = "Reset"
NoResets(s) == \A i \in DOMAIN s : s[i].type # "Reset"

(* Once a RESET is unread, only RESETs come in. *)
LEMMA AppendReset ==
  ASSUME NEW s \in Seq(Frame), NEW f \in Frame, f.type = "Reset"
  PROVE  LET t == Append(s, f)
         IN  /\ AllResets(s) => AllResets(t)
             /\ (\A i, j \in DOMAIN s : j > i /\ s[i].type = "Reset" => s[j].type = "Reset")
                  => \A i, j \in DOMAIN t : j > i /\ t[i].type = "Reset" => t[j].type = "Reset"
             /\ f.ack = NoSeq /\ (\A i \in DOMAIN s : s[i].type = "Reset" => s[i].ack = NoSeq)
                  => \A i \in DOMAIN t : t[i].type = "Reset" => t[i].ack = NoSeq
<1> DEFINE t == Append(s, f)
<1>1. \A i \in DOMAIN t : \/ i \in DOMAIN s /\ t[i] = s[i]
                          \/ t[i] = f /\ \A j \in DOMAIN t : ~(j > i)
  BY AppendFrame
<1> HIDE DEF t
<1> QED
  BY <1>1 DEF AllResets, t

(* Any other frame comes after the RESETs. *)
LEMMA AppendOther ==
  ASSUME NEW s \in Seq(Frame), NEW f \in Frame, f.type # "Reset"
  PROVE  LET t == Append(s, f)
         IN  /\ NoResets(s) => NoResets(t)
             /\ (\A i, j \in DOMAIN s : j > i /\ s[j].type = "Reset" => s[i].type = "Reset")
                  => \A i, j \in DOMAIN t : j > i /\ t[j].type = "Reset" => t[i].type = "Reset"
<1> DEFINE t == Append(s, f)
<1>1. \A i \in DOMAIN t : \/ i \in DOMAIN s /\ t[i] = s[i]
                          \/ t[i] = f /\ \A j \in DOMAIN t : ~(j > i)
  BY AppendFrame
<1>2. \A i, j \in DOMAIN t : j > i => i \in DOMAIN s /\ t[i] = s[i]
  BY <1>1
<1> HIDE DEF t
<1> QED
  BY <1>1, <1>2 DEF NoResets, t

LEMMA TailResets ==
  ASSUME NEW s \in Seq(Frame), s # <<>>
  PROVE  LET t == Tail(s)
         IN  /\ AllResets(s) => AllResets(t)
             /\ NoResets(s) => NoResets(t)
             /\ (\A i, j \in DOMAIN s : j > i /\ s[i].type = "Reset" => s[j].type = "Reset")
                  => /\ \A i, j \in DOMAIN t : j > i /\ t[i].type = "Reset" => t[j].type = "Reset"
                     /\ s[1].type = "Reset" => AllResets(t)
             /\ (\A i, j \in DOMAIN s : j > i /\ s[j].type = "Reset" => s[i].type = "Reset")
                  => /\ \A i, j \in DOMAIN t : j > i /\ t[j].type = "Reset" => t[i].type = "Reset"
                     /\ s[1].type # "Reset" => NoResets(t)
             /\ (\A i \in DOMAIN s : s[i].type = "Reset" => s[i].ack = NoSeq)
                  => \A i \in DOMAIN t : t[i].type = "Reset" => t[i].ack = NoSeq
<1> DEFINE t == Tail(s)
<1>1. /\ 1 \in DOMAIN s
      /\ \A i \in DOMAIN t : i \in Nat /\ i + 1 \in DOMAIN s /\ i + 1 > 1 /\ t[i] = s[i + 1]
  BY TailFrame
<1>2. \A i, j \in DOMAIN t : j > i => j + 1 > i + 1
  BY <1>1
<1> HIDE DEF t
<1>3. AllResets(s) => AllResets(t)
  BY <1>1 DEF AllResets
<1>4. NoResets(s) => NoResets(t)
  BY <1>1 DEF NoResets
<1>5. (\A i, j \in DOMAIN s : j > i /\ s[i].type = "Reset" => s[j].type = "Reset")
        => /\ \A i, j \in DOMAIN t : j > i /\ t[i].type = "Reset" => t[j].type = "Reset"
           /\ s[1].type = "Reset" => AllResets(t)
  BY <1>1, <1>2 DEF AllResets
<1>6. (\A i, j \in DOMAIN s : j > i /\ s[j].type = "Reset" => s[i].type = "Reset")
        => /\ \A i, j \in DOMAIN t : j > i /\ t[j].type = "Reset" => t[i].type = "Reset"
           /\ s[1].type # "Reset" => NoResets(t)
  BY <1>1, <1>2 DEF NoResets
<1>7. (\A i \in DOMAIN s : s[i].type = "Reset" => s[i].ack = NoSeq)
        => \A i \in DOMAIN t : t[i].type = "Reset" => t[i].ack = NoSeq
  BY <1>1
<1> QED
  BY <1>3, <1>4, <1>5, <1>6, <1>7 DEF t

-----------------------------------------------------------------------------
(* Every step keeps SessionInv.                                            *)

(* Where the Coordinator is tells whether a session is open. *)
LEMMA WhereItIs ==
  ASSUME IInv
  PROVE  /\ p_pc \in {"retry", "reset", "reset_wait"} =>
              InHandshake /\ Apart /\ connection_reset_required_
         /\ p_pc \in {"exchange", "wait"} =>
              ~InHandshake /\ Linked /\ ~connection_reset_required_
BY DEF IInv, SessionInv, ExchangeNeverResets, Linked, Apart, InHandshake

(* A failed exchange leaves the session open until the next reset begins,  *)
(* and a failed reset is begun again.                                      *)
LEMMA FailureOutcomes ==
  /\ \A failure, state : HandleTransactionFailure(failure, state) =>
       /\ connection_reset_required_ => connection_reset_required_'
       /\ ~connection_reset_required_ /\ p_pc' = "run" => ~InHandshake'
  /\ ResetFailed => /\ p_pc' = "retry"
                    /\ connection_reset_required_ => connection_reset_required_' /\ InHandshake'
<1>1. \A failure, state : HandleTransactionFailure(failure, state) =>
        /\ connection_reset_required_ => connection_reset_required_'
        /\ ~connection_reset_required_ /\ p_pc' = "run" => ~InHandshake'
  BY DEF HandleTransactionFailure, GiveUp, InHandshake
<1>2. ResetFailed => /\ p_pc' = "retry"
                     /\ connection_reset_required_ => connection_reset_required_'
  BY <1>1 DEF ResetFailed
<1> QED
  BY <1>1, <1>2 DEF InHandshake

(* The steps of the Coordinator that only wait, or give up waiting. *)
LEMMA QuietPrimary ==
  ASSUME IInv, UNCHANGED <<radioVars, s_pc>>,
         InHandshake => InHandshake' /\ p_pc' \in {"retry", p_pc},
         ~InHandshake => ~InHandshake' /\ p_pc' \in {"run", "exchange", p_pc}
  PROVE  SessionInv'
<1>1. UNCHANGED <<mac, rx_fifo, tun_read, session_out, consumed, delivered, cut>>
  BY DEF radioVars
<1>2. \A n \in Nodes : Direction(n)' = Direction(n)
  BY <1>1, SameDirection
<1>3. PacketsOK'
  BY <1>1, QuietStep DEF IInv, SessionInv
<1>4. \A n \in Nodes : Cleared(n) => Cleared(n)'
  BY <1>1 DEF Cleared
<1>5. ASSUME ~InHandshake PROVE Linked'
  <2>1. Linked /\ p_pc' \in {"run", "exchange", p_pc}
    BY <1>5 DEF IInv, SessionInv
  <2>2. PeerOwesReset' = PeerOwesReset
    BY <1>1 DEF PeerOwesReset
  <2> QED
    BY <1>1, <1>2, <1>4, <2>1, <2>2, NodeNames DEF Linked, ResetsFirst
<1>6. ASSUME InHandshake PROVE Apart'
  <2>1. Apart /\ p_pc' \in {"retry", p_pc}
    BY <1>6 DEF IInv, SessionInv
  <2>2. LeftBehind => LeftBehind'
    BY <1>1, <1>2, NodeNames DEF LeftBehind, ResetsLast
  <2>3. Reached => Reached'
    BY <1>1, <1>4, NodeNames DEF Reached
  <2> QED
    BY <1>1, <1>4, <2>1, <2>2, <2>3, NodeNames DEF Apart
<1> QED
  BY <1>3, <1>5, <1>6 DEF SessionInv

LEMMA WaitingSession ==
  ASSUME IInv, UNCHANGED secondaryVars,
         AwaitRetry \/ StartExchange(PeerIsBusy) \/ ReceiveTimesOut(PeerIsBusy)
  PROVE  SessionInv'
<1>1. UNCHANGED <<radioVars, s_pc>>
  BY DEF AwaitRetry, StartExchange, ReceiveTimesOut, secondaryVars
<1>2. CASE AwaitRetry
  BY <1>1, <1>2, QuietPrimary DEF AwaitRetry, InHandshake
<1>3. CASE StartExchange(PeerIsBusy)
  BY <1>1, <1>3, QuietPrimary DEF StartExchange, linkVars, InHandshake
<1>4. CASE ReceiveTimesOut(PeerIsBusy)
  <2>1. CASE p_pc = "wait"
    BY <1>1, <1>4, <2>1, QuietPrimary, WhereItIs, FailureOutcomes DEF ReceiveTimesOut
  <2>2. CASE p_pc = "reset_wait"
    BY <1>1, <1>4, <2>2, QuietPrimary, WhereItIs, FailureOutcomes DEF ReceiveTimesOut
  <2> QED
    BY <1>4, <2>1, <2>2 DEF ReceiveTimesOut
<1> QED
  BY <1>2, <1>3, <1>4

(* The Coordinator leaves the session, or has left it already. Frames of   *)
(* it may still be unread at the Peer.                                     *)
LEMMA LeavesSession ==
  ASSUME IInv, TypeOK', UNCHANGED s_pc, PeerOwesReset => InHandshake,
         ClearSession(Self) \/ LoseProcess(Self),
         rx_fifo' = [rx_fifo EXCEPT ![Self] = <<>>],
         InHandshake', p_pc' \in {"run", "reset"}
  PROVE  SessionInv'
<1>1. TypeOK /\ PacketsOK
  BY DEF IInv, SessionInv
<1>2. rx_fifo'[Self] = <<>> /\ rx_fifo'[Peer] = rx_fifo[Peer]
  BY <1>1, NodeNames, OtherNodes DEF TypeOK, RadioTypeOK
<1>3. Cleared(Self)' /\ (Cleared(Peer) => Cleared(Peer)')
  BY <1>1, NodeNames, OtherNodes, ClearDirections, LoseDirections
<1>4. /\ PacketsOK'
      /\ \A k, p : Expects(Self, Direction(Self), k, p) => Expects(Self, Direction(Self)', k, p)
      /\ AcksAreTrue(Peer, Direction(Peer)) => AcksAreTrue(Peer, Direction(Peer))'
  BY <1>1, <1>2, NodeNames, OtherNodes, ClearStep, LoseStep
<1>5. ASSUME Linked, ~PeerOwesReset
      PROVE  LeftBehind' /\ NoResets(rx_fifo'[Peer])
  <2>1. s_pc # "reset" /\ \A i \in DOMAIN rx_fifo[Peer] : rx_fifo[Peer][i].type # "Reset"
    BY <1>5 DEF PeerOwesReset
  <2>2. ASSUME NEW n \in Nodes
        PROVE  /\ AcksAreTrue(n, Direction(n))
               /\ \E k \in 1..(Len(Traffic[n]) + 1) : \E p \in 1..Length(n, k) :
                    Expects(n, Direction(n), k, p)
    <3>1. Direction(n) \in Directions
      BY <1>1, <2>2, DirectionTypes
    <3>2. QueueOK(n, Direction(n)) /\ Synchronised(n, Direction(n))
      BY <1>1, <1>5, <2>2 DEF PacketsOK, Linked
    <3> QED
      BY <2>2, <3>1, <3>2, SynchronisedAcks
  <2>3. AcksAreTrue(Peer, Direction(Peer))'
    BY <1>4, <2>2, NodeNames
  <2>4. \E k \in 1..(Len(Traffic[Self]) + 1) : \E p \in 1..Length(Self, k) :
          Expects(Self, Direction(Self)', k, p)
    BY <1>4, <2>2, NodeNames
  <2>5. ResetsLast(Peer)' /\ NoResets(rx_fifo'[Peer])
    BY <1>2, <2>1 DEF ResetsLast, NoResets
  <2>6. \A i \in DOMAIN rx_fifo'[Self] : rx_fifo'[Self][i].type # "Reset"
    BY <1>2
  <2> QED
    BY <2>1, <2>3, <2>4, <2>5, <2>6 DEF LeftBehind
<1>6. ASSUME LeftBehind PROVE LeftBehind'
  <2>1. AcksAreTrue(Peer, Direction(Peer))'
        /\ \E k \in 1..(Len(Traffic[Self]) + 1) : \E p \in 1..Length(Self, k) :
             Expects(Self, Direction(Self)', k, p)
    BY <1>4, <1>6 DEF LeftBehind
  <2>2. ResetsLast(Peer)' /\ s_pc' # "reset"
    BY <1>2, <1>6 DEF LeftBehind, ResetsLast
  <2>3. \A i \in DOMAIN rx_fifo'[Self] : rx_fifo'[Self][i].type # "Reset"
    BY <1>2
  <2> QED
    BY <2>1, <2>2, <2>3 DEF LeftBehind
<1>7. Reached => Reached'
  BY <1>2, <1>3 DEF Reached
<1>8. Apart'
  <2>1. CASE InHandshake
    <3>1. Apart
      BY <2>1 DEF IInv, SessionInv
    <3>2. \A i \in DOMAIN rx_fifo'[Peer] :
            rx_fifo'[Peer][i].type = "Reset" => rx_fifo'[Peer][i].ack = NoSeq
      BY <1>2, <3>1 DEF Apart
    <3> QED
      BY <1>3, <1>6, <1>7, <3>1, <3>2 DEF Apart
  <2>2. CASE ~InHandshake
    <3>1. Linked /\ ~PeerOwesReset
      BY <2>2 DEF IInv, SessionInv
    <3> QED
      BY <1>3, <1>5, <3>1 DEF Apart, NoResets
  <2> QED
    BY <2>1, <2>2
<1> QED
  BY <1>4, <1>8 DEF SessionInv

LEMMA StartResetSession ==
  ASSUME IInv, TypeOK', ~LateAtReset, UNCHANGED secondaryVars,
         StartReset(PeerIsBusy, PeerOwesReset)
  PROVE  SessionInv'
<1>1. /\ ClearSession(Self) /\ rx_fifo' = [rx_fifo EXCEPT ![Self] = <<>>]
      /\ p_pc' = "reset" /\ UNCHANGED s_pc /\ (PeerOwesReset => InHandshake)
  BY DEF StartReset, FlushRx, secondaryVars
<1>2. InHandshake'
  BY <1>1 DEF StartReset, IInv, GivenUpAsksForReset, linkVars, InHandshake
<1> QED
  BY <1>1, <1>2, LeavesSession

LEMMA RestartPrimarySession ==
  ASSUME IInv, TypeOK', ~LateAtReset, UNCHANGED secondaryVars, RestartPrimary(PeerOwesReset)
  PROVE  SessionInv'
<1>1. /\ LoseProcess(Self) /\ rx_fifo' = [rx_fifo EXCEPT ![Self] = <<>>]
      /\ p_pc' = "run" /\ UNCHANGED s_pc /\ (PeerOwesReset => InHandshake)
  BY DEF RestartPrimary, LoseProcess, secondaryVars
<1>2. InHandshake'
  BY DEF RestartPrimary, InHandshake
<1> QED
  BY <1>1, <1>2, LeavesSession

(* A RESET goes behind what is unread at the Peer. *)
LEMMA SendResetSession ==
  ASSUME IInv, TypeOK', UNCHANGED secondaryVars, SendReset
  PROVE  SessionInv'
<1> DEFINE f == ControlFrame("Reset", NoSeq, 0, 0)
           s == rx_fifo[Peer]
           t == rx_fifo'[Peer]
           d == Direction(Self)
           e == Direction(Self)'
           c == Direction(Peer)
           b == Direction(Peer)'
<1>1. Apart /\ connection_reset_required_
  BY WhereItIs DEF SendReset
<1>2. TypeOK /\ PacketsOK
  BY DEF IInv, SessionInv
<1>3. UNCHANGED <<mac, tun_read, session_out, consumed, delivered, cut>> /\ s_pc' = s_pc
  BY DEF SendReset, secondaryVars
<1>4. PacketsOK' /\ \A n \in Nodes : Cleared(n) => Cleared(n)'
  BY <1>2, <1>3, FramesStep
<1>5. p_pc' \in {"retry", "reset_wait"} /\ InHandshake'
  BY <1>1, FailureOutcomes DEF SendReset, linkVars, InHandshake
<1>6. f \in Frame /\ f.type = "Reset" /\ f.ack = NoSeq
  BY ControlFrameType DEF ControlFrame, FrameTypes, NoSeq
<1>7. rx_fifo' \in {rx_fifo, [rx_fifo EXCEPT ![Peer] = Append(@, f)]}
  BY OtherNodes DEF SendReset, Transmit
<1> HIDE DEF f
<1>8. s \in Seq(Frame) /\ t \in {s, Append(s, f)} /\ rx_fifo'[Self] = rx_fifo[Self]
  BY <1>2, <1>7, NodeNames, OtherNodes DEF TypeOK, RadioTypeOK
<1>9. /\ AllResets(s) => AllResets(t)
      /\ ResetsLast(Peer) => ResetsLast(Peer)'
      /\ \A i \in DOMAIN t : t[i].type = "Reset" => t[i].ack = NoSeq
  <2>1. \A i \in DOMAIN s : s[i].type = "Reset" => s[i].ack = NoSeq
    BY <1>1 DEF Apart
  <2> HIDE DEF s, t
  <2>2. /\ AllResets(s) => AllResets(t)
        /\ (\A i, j \in DOMAIN s : j > i /\ s[i].type = "Reset" => s[j].type = "Reset")
             => \A i, j \in DOMAIN t : j > i /\ t[i].type = "Reset" => t[j].type = "Reset"
        /\ \A i \in DOMAIN t : t[i].type = "Reset" => t[i].ack = NoSeq
    <3>1. CASE t = s
      BY <2>1, <3>1, Zenon
    <3>2. CASE t = Append(s, f)
      BY <1>6, <1>8, <2>1, <3>2, AppendReset, Zenon
    <3> QED
      BY <1>8, <3>1, <3>2
  <2> QED
    BY <2>2 DEF ResetsLast, s, t
<1>10. d \in Directions /\ e \in Directions /\ c \in Directions /\ b \in Directions
  BY <1>2, NodeNames, DirectionTypes
<1>11. /\ d.frames = s /\ e.frames = t /\ c.acks = s /\ b.acks = t
       /\ SameSender(d, e) /\ SameReceiver(d, e) /\ d.cut = e.cut
       /\ SameSender(c, b) /\ SameReceiver(c, b) /\ c.cut = b.cut
  BY <1>3, OtherNodes DEF Direction, SameSender, SameReceiver
<1>12. QueueOK(Self, d)
  BY <1>2, NodeNames DEF PacketsOK
<1> HIDE DEF s, t, d, e, c, b
<1>13. ASSUME NEW k, NEW p, Expects(Self, d, k, p) PROVE Expects(Self, e, k, p)
  <2>1. HeadNumber(d) \in Nat /\ HeadNumber(e) = HeadNumber(d) /\ e.read = d.read
        /\ d.read \in Nat
    BY <1>10, <1>11, <1>12, NodeNames, HeadPlace DEF SameSender, HeadNumber, Directions
  <2>2. HeadNumber(d) <= HeadNumber(e) /\ d.read <= e.read
    BY <2>1
  <2>3. CASE t = s
    BY <1>10, <1>11, <1>13, <2>1, <2>2, <2>3, NodeNames, ExpectsStays
  <2>4. CASE t = Append(s, f)
    BY <1>6, <1>10, <1>11, <1>13, <2>1, <2>2, <2>4, NodeNames, ExpectsMore
  <2> QED
    BY <1>8, <2>3, <2>4
<1>14. AcksAreTrue(Peer, c) => AcksAreTrue(Peer, b)
  <2>1. HeadNumber(b) = HeadNumber(c) /\ HeadPos(b) = HeadPos(c)
        /\ b.seq = c.seq /\ b.flying = c.flying
    BY <1>11 DEF SameSender, HeadNumber, HeadPos
  <2>2. \A k : Done(b, k) <=> Done(c, k)
    BY <1>11 DEF SameReceiver, Done
  <2>3. \A i \in DOMAIN t : t[i].type # "Reset" => i \in DOMAIN s /\ t[i] = s[i]
    BY <1>6, <1>8, AppendFrame
  <2> QED
    BY <1>11, <2>1, <2>2, <2>3 DEF AcksAreTrue
<1>15. LeftBehind => LeftBehind'
  BY <1>3, <1>8, <1>9, <1>13, <1>14 DEF LeftBehind, d, e, c, b
<1>16. Reached => Reached'
  BY <1>3, <1>4, <1>9, NodeNames DEF Reached, AllResets, s, t
<1>17. Apart'
  BY <1>1, <1>4, <1>5, <1>9, <1>15, <1>16, NodeNames DEF Apart, t
<1> QED
  BY <1>4, <1>5, <1>17 DEF SessionInv

(* The reply to a RESET, whichever RESET that was: the Peer is at the      *)
(* start of a session, too.                                                *)
LEMMA ResetReplyIsTrue ==
  ASSUME IInv, ReceiveResetReply, IsResetReply(Head(rx_fifo[Self]))
  PROVE  Apart /\ Reached
<1>1. Apart
  BY WhereItIs DEF ReceiveResetReply
<1>2. rx_fifo[Self] \in Seq(Frame) /\ rx_fifo[Self] # <<>>
  BY NodeNames DEF IInv, TypeOK, RadioTypeOK, ReceiveResetReply
<1>3. 1 \in DOMAIN rx_fifo[Self] /\ rx_fifo[Self][1].type = "Reset"
  BY <1>2, TailFrame, HeadTailProperties DEF IsResetReply
<1> QED
  BY <1>1, <1>3 DEF Apart, LeftBehind

LEMMA ReceiveResetReplySession ==
  ASSUME IInv, TypeOK', UNCHANGED secondaryVars, ReceiveResetReply
  PROVE  SessionInv'
<1>1. Apart /\ connection_reset_required_
  BY WhereItIs DEF ReceiveResetReply
<1>2. TypeOK /\ PacketsOK /\ rx_fifo \in [Nodes -> Seq(Frame)]
  BY DEF IInv, SessionInv, TypeOK, RadioTypeOK
<1>3. UNCHANGED <<mac, tun_read, session_out, consumed, delivered, cut>> /\ s_pc' = s_pc
  BY DEF ReceiveResetReply, secondaryVars
<1>4. PacketsOK' /\ \A n \in Nodes : Cleared(n) => Cleared(n)'
  BY <1>2, <1>3, FramesStep
<1>5. CASE IsResetReply(Head(rx_fifo[Self]))
  <2>1. Reached
    BY <1>5, ResetReplyIsTrue
  <2>2. rx_fifo'[Self] = <<>> /\ rx_fifo'[Peer] = rx_fifo[Peer]
    BY <1>2, <1>5, NodeNames, OtherNodes DEF ReceiveResetReply, FlushRx
  <2>3. ~InHandshake' /\ p_pc' = "run"
    BY <1>5 DEF ReceiveResetReply, InHandshake
  <2>4. ASSUME NEW n \in Nodes
        PROVE  Synchronised(n, Direction(n)')
    <3> DEFINE e == Direction(n)'
    <3>1. n \in {Self, Peer} /\ Cleared(n) /\ Cleared(Other(n))
      BY <1>1, <2>1, <2>4, OtherNodes DEF Nodes, Self, Peer, Apart, Reached
    <3>2. e \in Directions
      BY <1>2, <2>4, DirectionTypes
    <3>3. QueueOK(n, e) /\ HistoryOK(n, e)
      BY <1>4, <2>4 DEF PacketsOK
    <3>4. /\ \A i \in DOMAIN rx_fifo'[Peer] : /\ rx_fifo'[Peer][i].type = "Reset"
                                              /\ rx_fifo'[Peer][i].ack = NoSeq
          /\ DOMAIN rx_fifo'[Self] = {}
      BY <1>1, <2>1, <2>2 DEF Apart, Reached
    <3>5. e.frames = rx_fifo'[Other(n)] /\ e.acks = rx_fifo'[n]
      BY DEF Direction
    <3>6. SameSender(Direction(n), e) /\ SameReceiver(Direction(n), e) /\ e.cut = cut[n]
      BY <1>3 DEF SameSender, SameReceiver, Direction
    <3> HIDE DEF e
    <3>7. /\ \A i \in DOMAIN e.frames : e.frames[i].type # "Data"
          /\ \A i \in DOMAIN e.acks : e.acks[i].ack = NoSeq
      BY <3>1, <3>4, <3>5, OtherNodes
    <3>8. Due(n, e)
      BY <1>2, <2>4, <3>1, <3>2, <3>3, <3>6, <3>7, ClearedStart
    <3> QED
      BY <3>8 DEF Synchronised, e
  <2>5. ResetsFirst(Peer)' /\ s_pc' # "reply" /\ Cleared(Peer)'
    BY <1>3, <1>4, <2>1, <2>2, NodeNames DEF Reached, ResetsFirst
  <2>6. Linked'
    BY <2>3, <2>4, <2>5 DEF Linked
  <2> QED
    BY <1>4, <2>3, <2>6 DEF SessionInv
<1>6. CASE ~IsResetReply(Head(rx_fifo[Self]))
  <2>1. PopFrame(Self) /\ ResetFailed /\ rx_fifo[Self] # <<>>
    BY <1>6 DEF ReceiveResetReply
  <2>2. rx_fifo'[Self] = Tail(rx_fifo[Self]) /\ rx_fifo'[Peer] = rx_fifo[Peer]
    BY <1>2, <2>1, NodeNames, OtherNodes DEF PopFrame
  <2>3. InHandshake' /\ p_pc' = "retry"
    BY <1>1, <2>1, FailureOutcomes
  <2>4. /\ \A k, p : Expects(Self, Direction(Self), k, p)
                       => Expects(Self, Direction(Self)', k, p)
        /\ AcksAreTrue(Peer, Direction(Peer)) => AcksAreTrue(Peer, Direction(Peer))'
    BY <1>2, <1>3, <2>2, NodeNames, OtherNodes, FramesStep
  <2>5. NoResets(rx_fifo[Self]) => NoResets(rx_fifo'[Self])
    BY <1>2, <2>1, <2>2, NodeNames, TailResets
  <2>6. LeftBehind => LeftBehind'
    BY <1>3, <2>2, <2>4, <2>5 DEF LeftBehind, ResetsLast, NoResets
  <2>7. Reached => Reached'
    BY <1>3, <1>4, <2>2, NodeNames DEF Reached
  <2>8. Apart'
    BY <1>1, <1>4, <2>2, <2>3, <2>6, <2>7, NodeNames DEF Apart
  <2> QED
    BY <1>4, <2>3, <2>8 DEF SessionInv
<1> QED
  BY <1>5, <1>6

(* A frame taken by one end leaves the other at the start of its session. *)
LEMMA TakeKeepsOther ==
  ASSUME TypeOK, NEW n \in Nodes, NEW f \in Frame, TakeFrame(n, f), Cleared(Other(n))
  PROVE  Cleared(Other(n))'
<1>1. Other(n) \in Nodes /\ Other(n) # n
  BY DEF Nodes, Other
<1>2. /\ session_out'[Other(n)] = session_out[Other(n)]
      /\ consumed'[Other(n)] = consumed[Other(n)]
      /\ cut[Other(n)] \subseteq cut'[Other(n)]
  BY TakeFrameHistory
<1>3. mac'[Other(n)] = mac[Other(n)]
  BY <1>1 DEF TakeFrame, TypeOK, RadioTypeOK
<1> QED
  BY <1>2, <1>3 DEF Cleared

(* A frame that the Coordinator sends in an exchange is no RESET. *)
LEMMA SendRequestSession ==
  ASSUME IInv, TypeOK', UNCHANGED secondaryVars, SendRequest
  PROVE  SessionInv'
<1> DEFINE f == ChooseCoordinatorTxFrame
           s == rx_fifo[Peer]
           t == rx_fifo'[Peer]
<1>1. Linked /\ ~connection_reset_required_
  BY WhereItIs DEF SendRequest
<1>2. TypeOK /\ PacketsOK /\ InFlightIsHead
  BY DEF IInv, SessionInv
<1>3. Transmits(Self, f) /\ f.type # "Reset"
  BY RequestIsSent DEF IInv
<1> HIDE DEF f
<1>4. PacketsOK' /\ InStep'
  BY <1>1, <1>2, <1>3, NodeNames, TransmitStep DEF Linked, InStep
<1>5. p_pc' \in {"run", "wait"} /\ s_pc' = s_pc
  BY DEF SendRequest, secondaryVars
<1>6. ~InHandshake'
  BY <1>1, FailureOutcomes DEF SendRequest, linkVars, InHandshake
<1>7. f \in Frame /\ s \in Seq(Frame) /\ t \in {s, Append(s, f)}
  BY <1>2, <1>3, NodeNames, OtherNodes DEF Transmits, TypeOK, RadioTypeOK
<1>8. Cleared(Peer) => Cleared(Peer)'
  BY <1>2, <1>3, NodeNames, OtherNodes DEF Transmits, Cleared, TypeOK, RadioTypeOK
<1> HIDE DEF s, t
<1>9. /\ NoResets(s) => NoResets(t)
      /\ (\A i, j \in DOMAIN s : j > i /\ s[j].type = "Reset" => s[i].type = "Reset")
           => \A i, j \in DOMAIN t : j > i /\ t[j].type = "Reset" => t[i].type = "Reset"
  BY <1>3, <1>7, AppendOther
<1>10. ResetsFirst(Peer)'
  BY <1>1, <1>9 DEF Linked, ResetsFirst, s, t
<1>11. PeerOwesReset' => PeerOwesReset
  BY <1>5, <1>9 DEF PeerOwesReset, NoResets, s, t
<1>12. Linked'
  BY <1>1, <1>4, <1>5, <1>8, <1>10, <1>11 DEF Linked, InStep
<1> QED
  BY <1>4, <1>6, <1>12 DEF SessionInv

LEMMA ReceiveReplySession ==
  ASSUME IInv, TypeOK', UNCHANGED secondaryVars, ReceiveReply
  PROVE  SessionInv'
<1>1. Linked /\ ~connection_reset_required_
  BY WhereItIs DEF ReceiveReply
<1>2. TypeOK /\ PacketsOK /\ InFlightIsHead
  BY DEF IInv, SessionInv
<1>3. rx_fifo[Self] # <<>> /\ TakeFrame(Self, Head(rx_fifo[Self])) /\ PopFrame(Self)
      /\ p_pc' = "run" /\ s_pc' = s_pc
  BY DEF ReceiveReply, secondaryVars
<1>4. PacketsOK' /\ InStep'
  BY <1>1, <1>2, <1>3, NodeNames, TakeStep DEF Linked, InStep
<1>5. ~InHandshake'
  BY <1>1, <1>3, FailureOutcomes DEF ReceiveReply, InHandshake
<1>6. rx_fifo'[Peer] = rx_fifo[Peer]
  BY <1>2, <1>3, NodeNames, OtherNodes DEF PopFrame, TypeOK, RadioTypeOK
<1>7. Head(rx_fifo[Self]) \in Frame
  BY <1>2, <1>3, NodeNames, HeadOfFifo DEF TypeOK
<1>8. Cleared(Peer) => Cleared(Peer)'
  BY <1>2, <1>3, <1>7, NodeNames, OtherNodes, TakeKeepsOther
<1>9. ResetsFirst(Peer)' /\ (PeerOwesReset' => PeerOwesReset)
  BY <1>1, <1>3, <1>6 DEF Linked, ResetsFirst, PeerOwesReset
<1>10. Linked'
  BY <1>1, <1>3, <1>4, <1>8, <1>9 DEF Linked, InStep
<1> QED
  BY <1>4, <1>5, <1>10 DEF SessionInv

(* The Peer.                                                               *)
LEMMA StartReceiveSession ==
  ASSUME IInv, UNCHANGED primaryVars, StartReceive
  PROVE  SessionInv'
<1>1. UNCHANGED <<mac, rx_fifo, tun_read, session_out, consumed, delivered, cut>>
  BY DEF StartReceive
<1>2. \A n \in Nodes : Direction(n)' = Direction(n)
  BY <1>1, SameDirection
<1>3. PacketsOK'
  BY <1>1, QuietStep DEF IInv, SessionInv
<1>4. s_pc = "receive" /\ s_pc' = "wait" /\ InHandshake' = InHandshake /\ p_pc' = p_pc
  BY DEF StartReceive, primaryVars, linkVars, InHandshake
<1>5. \A n \in Nodes : Cleared(n) => Cleared(n)'
  BY <1>1 DEF Cleared
<1>6. Linked => Linked'
  BY <1>1, <1>2, <1>4, <1>5, NodeNames DEF Linked, ResetsFirst, PeerOwesReset
<1>7. LeftBehind => LeftBehind'
  BY <1>1, <1>2, <1>4, NodeNames DEF LeftBehind, ResetsLast
<1>8. Reached => Reached'
  BY <1>1, <1>4, <1>5, NodeNames DEF Reached
<1>9. Apart => Apart'
  BY <1>1, <1>4, <1>5, <1>7, <1>8, NodeNames DEF Apart
<1> QED
  BY <1>3, <1>4, <1>6, <1>9 DEF IInv, SessionInv

(* A RESET that finds the Peer at the start of a session changes nothing   *)
(* there: it is taken like a frame without data.                           *)
LEMMA ResetAgain ==
  ASSUME TypeOK, NEW n \in Nodes, Cleared(n), ClearSession(n), NEW f \in Frame,
         f.type = "Reset"
  PROVE  TakeFrame(n, f) /\ Cleared(n)'
<1> DEFINE m == mac[n]
<1>1. /\ mac \in [Nodes -> Mac] /\ session_out \in [Nodes -> Seq(Seq(Byte))]
      /\ consumed \in [Nodes -> Seq(Byte)] /\ delivered \in [Nodes -> SUBSET Nat]
      /\ cut \in [Nodes -> SUBSET Nat] /\ m \in Mac
  BY DEF TypeOK, RadioTypeOK
<1>2. /\ m = ClearedMac(m) /\ consumed[n] = <<>> /\ session_out[n] = <<>>
      /\ ShortenedHead(m) \subseteq cut[n]
  BY DEF Cleared
<1>3. ~m.tx_in_flight_
  BY <1>1, <1>2, ClearedFields
<1>4. AfterFrame(n, f) = m
  BY <1>3 DEF AfterFrame, CommitAckLocked, IsAckOfInFlight, ConsumeDataFrameLocked
<1>5. WrittenBy(m, f) = <<>>
  BY DEF WrittenBy
<1>6. mac' = mac /\ session_out' = session_out /\ consumed' = consumed /\ cut' = cut
      /\ tun_read' = tun_read /\ delivered' = delivered
  <2>1. cut[n] \cup ShortenedHead(m) = cut[n]
    BY <1>2
  <2> QED
    BY <1>1, <1>2, <2>1 DEF ClearSession
<1>7. [mac EXCEPT ![n] = m] = mac
      /\ [session_out EXCEPT ![n] = @ \o <<>>] = session_out
      /\ [delivered EXCEPT ![n] = @ \cup {}] = delivered
  <2>1. session_out[n] \o <<>> = session_out[n]
    BY <1>1, ConcatEmptySeq
  <2> QED
    BY <1>1, <2>1
<1> DEFINE out == WrittenBy(m, f)
<1>8. {out[i][1].pkt : i \in DOMAIN out} = {}
  BY <1>5
<1>9. TakeFrame(n, f)
  <2> DEFINE packets == {out[i][1].pkt : i \in DOMAIN out}
  <2>1. packets = {} /\ out = <<>>
    BY <1>5, <1>8
  <2> HIDE DEF packets, out
  <2>2. WriteTunnel(n, packets)
    BY <1>6, <1>7, <2>1 DEF WriteTunnel
  <2>3. /\ mac' = [mac EXCEPT ![n] = AfterFrame(n, f)]
        /\ session_out' = [session_out EXCEPT ![n] = @ \o out]
        /\ consumed' = consumed /\ tun_read' = tun_read
    BY <1>4, <1>6, <1>7, <2>1
  <2>4. consumed' = CASE f.type # "Data" \/ IsDuplicate(m, f) -> consumed
                      [] IsRefused(m, f) -> [consumed EXCEPT ![n] = <<>>]
                      [] OTHER -> [consumed EXCEPT ![n] = f.payload]
    BY <2>3 DEF IsRefused
  <2> HIDE DEF m
  <2>5. /\ mac' = [mac EXCEPT ![n] = AfterFrame(n, f)]
        /\ session_out' = [session_out EXCEPT ![n] = @ \o WrittenBy(m, f)]
        /\ WriteTunnel(n, {WrittenBy(m, f)[i][1].pkt : i \in DOMAIN WrittenBy(m, f)})
        /\ UNCHANGED tun_read
    BY <2>2, <2>3 DEF packets, out
  <2> QED
    BY <2>4, <2>5 DEF TakeFrame, m
<1>10. Cleared(n)'
  BY <1>6 DEF Cleared
<1> QED
  BY <1>9, <1>10

LEMMA ReceiveResetSession ==
  ASSUME IInv, TypeOK', UNCHANGED primaryVars, ReceiveReset
  PROVE  SessionInv'
<1> DEFINE s == rx_fifo[Peer]
           t == rx_fifo'[Peer]
<1>1. /\ s_pc = "wait" /\ s # <<>> /\ Head(s).type = "Reset"
      /\ ClearSession(Peer) /\ s_pc' = "reset" /\ PopFrame(Peer)
      /\ InHandshake' = InHandshake /\ p_pc' = p_pc
  BY DEF ReceiveReset, primaryVars, linkVars, InHandshake
<1>2. TypeOK /\ PacketsOK /\ InFlightIsHead /\ rx_fifo \in [Nodes -> Seq(Frame)]
  BY DEF IInv, SessionInv, TypeOK, RadioTypeOK
<1>3. /\ t = Tail(s) /\ rx_fifo'[Self] = rx_fifo[Self]
      /\ s \in Seq(Frame) /\ Head(s) \in Frame /\ 1 \in DOMAIN s /\ s[1] = Head(s)
  BY <1>1, <1>2, NodeNames, OtherNodes, TailFrame, HeadTailProperties DEF PopFrame
<1> HIDE DEF s, t
<1>4. /\ ResetsFirst(Peer) => ResetsFirst(Peer)'
      /\ ResetsLast(Peer) => AllResets(t)
      /\ AllResets(s) => AllResets(t)
      /\ (\A i \in DOMAIN s : s[i].type = "Reset" => s[i].ack = NoSeq)
           => \A i \in DOMAIN t : t[i].type = "Reset" => t[i].ack = NoSeq
  <2>1. /\ AllResets(s) => AllResets(t)
        /\ (\A i, j \in DOMAIN s : j > i /\ s[i].type = "Reset" => s[j].type = "Reset")
             => AllResets(t)
        /\ (\A i, j \in DOMAIN s : j > i /\ s[j].type = "Reset" => s[i].type = "Reset")
             => \A i, j \in DOMAIN t : j > i /\ t[j].type = "Reset" => t[i].type = "Reset"
        /\ (\A i \in DOMAIN s : s[i].type = "Reset" => s[i].ack = NoSeq)
             => \A i \in DOMAIN t : t[i].type = "Reset" => t[i].ack = NoSeq
    BY <1>1, <1>3, TailResets
  <2> QED
    BY <2>1 DEF ResetsFirst, ResetsLast, s, t
<1>5. PacketsOK' /\ Cleared(Peer)' /\ (Cleared(Self) => Cleared(Self)')
  BY <1>1, <1>2, NodeNames, OtherNodes, ClearStep, ClearDirections
<1>6. ASSUME Linked PROVE Linked'
  <2>1. PeerOwesReset
    BY <1>1, <1>3 DEF PeerOwesReset, s
  <2>2. Cleared(Peer)
    BY <1>6, <2>1 DEF Linked
  <2>3. TakeFrame(Peer, Head(rx_fifo[Peer])) /\ rx_fifo[Peer] # <<>>
    BY <1>1, <1>2, <1>3, <2>2, NodeNames, ResetAgain DEF s
  <2>4. InStep'
    BY <1>1, <1>2, <1>6, <2>3, NodeNames, TakeStep DEF Linked, InStep
  <2> QED
    BY <1>1, <1>4, <1>5, <1>6, <2>4 DEF Linked, InStep
<1>7. ASSUME Apart PROVE Apart'
  <2>1. AllResets(t)
    BY <1>4, <1>7 DEF Apart, LeftBehind, Reached, AllResets, s
  <2>2. Reached'
    BY <1>1, <1>5, <2>1 DEF Reached, AllResets, t
  <2> QED
    BY <1>1, <1>4, <1>5, <1>7, <2>2 DEF Apart, s, t
<1> QED
  BY <1>1, <1>5, <1>6, <1>7 DEF IInv, SessionInv

LEMMA SendResetReplySession ==
  ASSUME IInv, TypeOK', UNCHANGED primaryVars, SendResetReply
  PROVE  SessionInv'
<1> DEFINE f == ControlFrame("Reset", NoSeq, 0, 0)
<1>1. /\ s_pc = "reset" /\ s_pc' = "receive"
      /\ InHandshake' = InHandshake /\ p_pc' = p_pc
      /\ UNCHANGED <<mac, tun_read, session_out, consumed, delivered, cut>>
  BY DEF SendResetReply, primaryVars, linkVars, InHandshake
<1>2. TypeOK /\ PacketsOK /\ InFlightIsHead
  BY DEF IInv, SessionInv
<1>3. PacketsOK' /\ \A n \in Nodes : Cleared(n) => Cleared(n)'
  BY <1>1, <1>2, FramesStep
<1>4. f \in Frame /\ f.type = "Reset" /\ f.ack = NoSeq
  BY ControlFrameType DEF ControlFrame, FrameTypes, NoSeq
<1>5. rx_fifo' \in {rx_fifo, [rx_fifo EXCEPT ![Self] = Append(@, f)]}
  BY OtherNodes DEF SendResetReply, Transmit
<1> HIDE DEF f
<1>6. rx_fifo'[Peer] = rx_fifo[Peer]
  BY <1>2, <1>5, NodeNames, OtherNodes DEF TypeOK, RadioTypeOK
<1>7. ASSUME Linked PROVE Linked'
  <2>1. Cleared(Peer) /\ ResetsFirst(Peer)
    BY <1>1, <1>7 DEF Linked, PeerOwesReset
  <2>2. mac[Peer].last_rx_seq_ = NoSeq
    BY <1>2, <2>1, NodeNames, ClearedFields DEF Cleared, TypeOK, RadioTypeOK
  <2>3. Transmits(Peer, f)
    BY <1>1, <1>4, <1>5, <2>2, OtherNodes DEF Transmits
  <2>4. InStep'
    BY <1>2, <1>7, <2>3, NodeNames, TransmitStep DEF Linked, InStep
  <2> QED
    BY <1>1, <1>3, <1>6, <1>7, <2>1, <2>4, NodeNames DEF Linked, InStep, ResetsFirst
<1>8. ASSUME Apart PROVE Apart'
  <2>1. Reached
    BY <1>1, <1>8 DEF Apart, LeftBehind
  <2>2. Reached'
    BY <1>1, <1>3, <1>6, <2>1, NodeNames DEF Reached
  <2> QED
    BY <1>1, <1>3, <1>6, <1>8, <2>2, NodeNames DEF Apart
<1> QED
  BY <1>1, <1>3, <1>7, <1>8 DEF IInv, SessionInv

LEMMA SendReplySession ==
  ASSUME IInv, TypeOK', UNCHANGED primaryVars, SendReply
  PROVE  SessionInv'
<1> DEFINE f == ChoosePeerResponse
           s == rx_fifo[Self]
           t == rx_fifo'[Self]
<1>1. TypeOK /\ InFlightIsHead /\ PacketsOK
  BY DEF IInv, SessionInv
<1>2. Transmits(Peer, f) /\ f.type # "Reset" /\ rx_fifo'[Peer] = rx_fifo[Peer]
  BY <1>1, ReplyIsSent
<1> HIDE DEF f
<1>3. /\ PacketsOK'
      /\ InStep => InStep'
      /\ AcksAreTrue(Peer, Direction(Peer)) => AcksAreTrue(Peer, Direction(Peer))'
      /\ \A k, p : Expects(Self, Direction(Self), k, p) => Expects(Self, Direction(Self)', k, p)
  BY <1>1, <1>2, NodeNames, OtherNodes, TransmitStep
<1>4. /\ s_pc = "reply" /\ s_pc' = "receive"
      /\ InHandshake' = InHandshake /\ p_pc' = p_pc
      /\ UNCHANGED <<consumed, session_out, cut>>
  BY DEF SendReply, primaryVars, linkVars, InHandshake
<1>5. PeerOwesReset' => PeerOwesReset
  BY <1>2, <1>4 DEF PeerOwesReset
<1>6. Linked => Linked'
  BY <1>2, <1>3, <1>4, <1>5 DEF Linked, InStep, ResetsFirst
<1>7. Cleared(Self) => Cleared(Self)'
  BY <1>1, <1>4, NodeNames, OtherNodes DEF SendReply, Cleared, TypeOK, RadioTypeOK
<1>8. f \in Frame /\ s \in Seq(Frame) /\ t \in {s, Append(s, f)}
  BY <1>1, <1>2, NodeNames, OtherNodes DEF Transmits, TypeOK, RadioTypeOK
<1> HIDE DEF s, t
<1>9. NoResets(s) => NoResets(t)
  BY <1>2, <1>8, AppendOther
<1>10. LeftBehind => LeftBehind'
  BY <1>2, <1>3, <1>4, <1>9 DEF LeftBehind, ResetsLast, NoResets, s, t
<1>11. Apart => Apart'
  BY <1>2, <1>4, <1>7, <1>10 DEF Apart, Reached
<1> QED
  BY <1>3, <1>4, <1>6, <1>11 DEF IInv, SessionInv

LEMMA ReceiveRequestSession ==
  ASSUME IInv, TypeOK', UNCHANGED primaryVars, ReceiveRequest
  PROVE  SessionInv'
<1> DEFINE s == rx_fifo[Peer]
           t == rx_fifo'[Peer]
<1>1. /\ s_pc = "wait" /\ s_pc' \in {"wait", "reply"}
      /\ s # <<>> /\ Head(s).type # "Reset"
      /\ TakeFrame(Peer, Head(s)) /\ PopFrame(Peer)
      /\ InHandshake' = InHandshake /\ p_pc' = p_pc
  BY DEF ReceiveRequest, primaryVars, linkVars, secondaryVars, InHandshake
<1>2. TypeOK /\ InFlightIsHead /\ PacketsOK /\ rx_fifo \in [Nodes -> Seq(Frame)]
  BY DEF IInv, SessionInv, TypeOK, RadioTypeOK
<1>3. /\ InStep => PacketsOK' /\ InStep'
      /\ \A k, p : AcksAreTrue(Peer, Direction(Peer)) /\ Expects(Self, Direction(Self), k, p)
           => /\ PacketsOK'
              /\ AcksAreTrue(Peer, Direction(Peer))'
              /\ \E k2 \in 1..(Len(Traffic[Self]) + 1) : \E p2 \in 1..Length(Self, k2) :
                   Expects(Self, Direction(Self)', k2, p2)
  BY <1>1, <1>2, NodeNames, OtherNodes, TakeStep
<1>4. /\ t = Tail(s) /\ rx_fifo'[Self] = rx_fifo[Self]
      /\ s \in Seq(Frame) /\ Head(s) \in Frame /\ 1 \in DOMAIN s /\ s[1] = Head(s)
  BY <1>1, <1>2, NodeNames, OtherNodes, TailFrame, HeadTailProperties DEF PopFrame
<1>5. Cleared(Self) => Cleared(Self)'
  BY <1>1, <1>2, <1>4, NodeNames, OtherNodes, TakeKeepsOther
<1> HIDE DEF s, t
<1>6. /\ ResetsFirst(Peer) => ResetsFirst(Peer)' /\ NoResets(t)
      /\ ResetsLast(Peer) => ResetsLast(Peer)'
      /\ (\A i \in DOMAIN s : s[i].type = "Reset" => s[i].ack = NoSeq)
           => \A i \in DOMAIN t : t[i].type = "Reset" => t[i].ack = NoSeq
  <2>1. /\ (\A i, j \in DOMAIN s : j > i /\ s[i].type = "Reset" => s[j].type = "Reset")
             => \A i, j \in DOMAIN t : j > i /\ t[i].type = "Reset" => t[j].type = "Reset"
        /\ (\A i, j \in DOMAIN s : j > i /\ s[j].type = "Reset" => s[i].type = "Reset")
             => /\ \A i, j \in DOMAIN t : j > i /\ t[j].type = "Reset" => t[i].type = "Reset"
                /\ NoResets(t)
        /\ (\A i \in DOMAIN s : s[i].type = "Reset" => s[i].ack = NoSeq)
             => \A i \in DOMAIN t : t[i].type = "Reset" => t[i].ack = NoSeq
    BY <1>1, <1>4, TailResets
  <2> QED
    BY <2>1 DEF ResetsFirst, ResetsLast, s, t
<1>7. ASSUME Linked PROVE PacketsOK' /\ Linked'
  <2>1. PacketsOK' /\ InStep'
    BY <1>3, <1>7 DEF Linked, InStep
  <2>2. ~PeerOwesReset' /\ ResetsFirst(Peer)'
    BY <1>1, <1>6, <1>7 DEF Linked, PeerOwesReset, NoResets, t
  <2> QED
    BY <1>1, <1>7, <2>1, <2>2 DEF Linked, InStep
<1>8. ASSUME Apart PROVE PacketsOK' /\ Apart'
  <2>1. LeftBehind
    BY <1>1, <1>4, <1>8 DEF Apart, Reached, s
  <2>2. /\ PacketsOK'
        /\ AcksAreTrue(Peer, Direction(Peer))'
        /\ \E k2 \in 1..(Len(Traffic[Self]) + 1) : \E p2 \in 1..Length(Self, k2) :
             Expects(Self, Direction(Self)', k2, p2)
    BY <1>3, <2>1 DEF LeftBehind
  <2>3. LeftBehind'
    BY <1>1, <1>4, <1>6, <2>1, <2>2 DEF LeftBehind
  <2> QED
    BY <1>1, <1>5, <1>6, <1>8, <2>2, <2>3 DEF Apart, s, t
<1> QED
  BY <1>1, <1>7, <1>8 DEF IInv, SessionInv

(* TunnelThread pushes while any of this goes on. *)
LEMMA TunnelSession ==
  ASSUME IInv, TypeOK', TunnelNext
  PROVE  SessionInv'
<1>1. TypeOK /\ PacketsOK
  BY DEF IInv, SessionInv
<1>2. PICK n \in Nodes : TunnelThread(n)
  BY DEF TunnelNext
<1>3. InHandshake' = InHandshake /\ UNCHANGED <<p_pc, s_pc, rx_fifo>>
  BY <1>2 DEF TunnelNext, primaryVars, secondaryVars, linkVars, TunnelThread, InHandshake
<1>4. /\ PacketsOK'
      /\ InStep => InStep'
      /\ \A o \in Nodes : /\ AcksAreTrue(o, Direction(o)) => AcksAreTrue(o, Direction(o))'
                          /\ \A k, p : Expects(o, Direction(o), k, p)
                                         => Expects(o, Direction(o)', k, p)
  BY <1>1, <1>2, TunnelStep
<1>5. \A o \in Nodes : Cleared(o) => Cleared(o)'
  BY <1>1, <1>2, TunnelCleared
<1>6. Linked => Linked'
  BY <1>3, <1>4, <1>5, NodeNames DEF Linked, InStep, ResetsFirst, PeerOwesReset
<1>7. LeftBehind => LeftBehind'
  BY <1>3, <1>4, NodeNames DEF LeftBehind, ResetsLast
<1>8. Reached => Reached'
  BY <1>3, <1>5, NodeNames DEF Reached
<1>9. Apart => Apart'
  BY <1>3, <1>5, <1>7, <1>8, NodeNames DEF Apart
<1> QED
  BY <1>3, <1>4, <1>6, <1>9 DEF IInv, SessionInv

(* The first reset finds a Peer as it would be after one. *)
LEMMA InitSession == Init => IInv
<1> SUFFICES ASSUME Init PROVE IInv
  OBVIOUS
<1>1. TypeOK
  BY InitType
<1>2. /\ mac = [n \in Nodes |-> NewMac]
      /\ rx_fifo = [n \in Nodes |-> <<>>]
      /\ tun_read = [n \in Nodes |-> 0]
      /\ session_out = [n \in Nodes |-> <<>>]
      /\ consumed = [n \in Nodes |-> <<>>]
      /\ delivered = [n \in Nodes |-> {}]
  BY DEF Init, RadioInit
<1>3. /\ p_pc = "run" /\ s_pc = "receive" /\ state_ = "ResetSync"
      /\ connection_reset_required_
  BY DEF Init, PrimaryInit, SecondaryInit
<1>4. ExchangeNeverResets /\ ConnectedBelowThresholds /\ GivenUpAsksForReset
  BY <1>3, InitControl DEF ControlInv, GivenUpAsksForReset, Init, PrimaryInit
<1>5. InFlightIsHead
  BY <1>2, ClearedFragment DEF InFlightIsHead
<1>6. /\ NewMac.read_buffer_ = <<>> /\ NewMac.next_tx_seq_ = 1 /\ ~NewMac.tx_in_flight_
      /\ ClearedMac(NewMac) = NewMac /\ ShortenedHead(NewMac) = {}
  BY DEF NewMac, ClearedMac, ShortenedHead
<1>7. Cleared(Self) /\ Cleared(Peer)
  BY <1>2, <1>6, NodeNames DEF Cleared
<1>8. ASSUME NEW n \in Nodes
      PROVE  QueueOK(n, Direction(n)) /\ HistoryOK(n, Direction(n))
  <2> DEFINE d == Direction(n)
  <2>1. Other(n) \in Nodes
    BY <1>8, OtherIsNode
  <2>2. /\ d.queue = <<>> /\ d.seq = 1 /\ ~d.flying /\ d.read = 0
        /\ d.out = <<>> /\ d.delivered = {}
    BY <1>2, <1>6, <1>8, <2>1 DEF Direction
  <2> HIDE DEF d
  <2>3. Len(d.queue) = 0 /\ Len(d.out) = 0
    BY <2>2
  <2>4. HeadNumber(d) = 1 /\ HeadPos(d) = 1
    BY <2>2, <2>3 DEF HeadNumber, HeadPos
  <2>5. Len(Traffic[n]) \in Nat /\ MaxSeq \in Nat /\ MaxSeq >= 1
    BY <1>8, RadioAssumption, LenProperties DEF RadioAssumption
  <2>6. 1 \in 1..Length(n, 1)
    BY <1>8, LengthType
  <2>7. 1..(1 - 1) = {} /\ 1..(0 - 1) = {} /\ 2..0 = {}
    OBVIOUS
  <2>8. QueueOK(n, d)
    BY <2>2, <2>3, <2>4, <2>5, <2>6, <2>7 DEF QueueOK
  <2>9. DOMAIN d.out = {}
    BY <2>2
  <2>10. HistoryOK(n, d)
    BY <2>2, <2>3, <2>4, <2>7, <2>9 DEF HistoryOK
  <2> QED
    BY <2>8, <2>10 DEF d
<1>9. rx_fifo[Peer] = <<>> /\ InHandshake
  BY <1>2, <1>3, NodeNames DEF Init, PrimaryInit, InHandshake
<1>10. Apart
  BY <1>3, <1>7, <1>9 DEF Apart, Reached
<1> QED
  BY <1>1, <1>4, <1>5, <1>8, <1>9, <1>10 DEF IInv, SessionInv, PacketsOK

LEMMA NextGivenUp ==
  ASSUME TypeOK, GivenUpAsksForReset, [Next]_vars
  PROVE  GivenUpAsksForReset'
<1>1. CASE PrimaryNext
  <2>1. \A failure, state : HandleTransactionFailure(failure, state) => GivenUpAsksForReset'
    BY DEF HandleTransactionFailure, GiveUp, GivenUpAsksForReset
  <2>2. ResetFailed => GivenUpAsksForReset'
    BY <2>1 DEF ResetFailed, GivenUpAsksForReset
  <2>3. HandleSuccess => GivenUpAsksForReset'
    BY DEF HandleSuccess, GivenUpAsksForReset
  <2>4. UNCHANGED linkVars => GivenUpAsksForReset'
    BY DEF linkVars, GivenUpAsksForReset
  <2>5. AwaitRetry => GivenUpAsksForReset'
    BY DEF AwaitRetry, GivenUpAsksForReset
  <2>6. StartReset(PeerIsBusy, PeerOwesReset) => GivenUpAsksForReset'
    BY <2>4 DEF StartReset
  <2>7. SendReset => GivenUpAsksForReset'
    BY <2>2, <2>4 DEF SendReset
  <2>8. ReceiveResetReply => GivenUpAsksForReset'
    BY <2>2, <2>3 DEF ReceiveResetReply
  <2>9. StartExchange(PeerIsBusy) => GivenUpAsksForReset'
    BY <2>4 DEF StartExchange
  <2>10. SendRequest => GivenUpAsksForReset'
    BY <2>1, <2>4 DEF SendRequest
  <2>11. ReceiveReply => GivenUpAsksForReset'
    BY <2>1, <2>3 DEF ReceiveReply
  <2>12. ReceiveTimesOut(PeerIsBusy) => GivenUpAsksForReset'
    BY <2>1, <2>2 DEF ReceiveTimesOut
  <2>13. RestartPrimary(PeerOwesReset) => GivenUpAsksForReset'
    BY DEF RestartPrimary, GivenUpAsksForReset
  <2> QED
    BY <1>1, <2>5, <2>6, <2>7, <2>8, <2>9, <2>10, <2>11, <2>12, <2>13 DEF PrimaryNext
<1>2. CASE SecondaryNext \/ TunnelNext \/ UNCHANGED vars
  <2>1. UNCHANGED primaryVars
    BY <1>2 DEF SecondaryNext, TunnelNext, vars
  <2> QED
    BY <2>1 DEF primaryVars, linkVars, GivenUpAsksForReset
<1> QED
  BY <1>1, <1>2 DEF Next

LEMMA StutterSession ==
  ASSUME IInv, UNCHANGED vars
  PROVE  SessionInv'
<1>1. UNCHANGED <<radioVars, s_pc, p_pc>> /\ InHandshake' = InHandshake
  BY DEF vars, primaryVars, secondaryVars, linkVars, InHandshake
<1> QED
  BY <1>1, QuietPrimary

(* IInv is inductive when no Peer restarts, and none owes an answer to the *)
(* RESET of a handshake that is over when the next one begins.             *)
LEMMA NextSession ==
  ASSUME SessionsAreKept, IInv, [Next]_vars
  PROVE  IInv'
<1>1. TypeOK'
  BY NextType DEF IInv
<1>2. ExchangeNeverResets' /\ ConnectedBelowThresholds'
  BY NextControl DEF IInv, ControlInv
<1>3. GivenUpAsksForReset'
  BY NextGivenUp DEF IInv
<1>4. InFlightIsHead'
  BY NextFragment DEF IInv
<1>5. SessionInv'
  <2>1. CASE PrimaryNext
    <3>1. UNCHANGED secondaryVars
      BY <2>1 DEF PrimaryNext
    <3>2. CASE AwaitRetry \/ StartExchange(PeerIsBusy) \/ ReceiveTimesOut(PeerIsBusy)
      BY <3>1, <3>2, WaitingSession
    <3>3. CASE StartReset(PeerIsBusy, PeerOwesReset)
      BY <1>1, <3>1, <3>3, StartResetSession DEF SessionsAreKept
    <3>4. CASE SendReset
      BY <1>1, <3>1, <3>4, SendResetSession
    <3>5. CASE ReceiveResetReply
      BY <1>1, <3>1, <3>5, ReceiveResetReplySession
    <3>6. CASE SendRequest
      BY <1>1, <3>1, <3>6, SendRequestSession
    <3>7. CASE ReceiveReply
      BY <1>1, <3>1, <3>7, ReceiveReplySession
    <3>8. CASE "primary" \in Restarts /\ RestartPrimary(PeerOwesReset)
      BY <1>1, <3>1, <3>8, RestartPrimarySession DEF SessionsAreKept
    <3> QED
      BY <2>1, <3>2, <3>3, <3>4, <3>5, <3>6, <3>7, <3>8 DEF PrimaryNext
  <2>2. CASE SecondaryNext
    <3>1. UNCHANGED primaryVars
      BY <2>2 DEF SecondaryNext
    <3>2. CASE StartReceive
      BY <3>1, <3>2, StartReceiveSession
    <3>3. CASE ReceiveReset
      BY <1>1, <3>1, <3>3, ReceiveResetSession
    <3>4. CASE ReceiveRequest
      BY <1>1, <3>1, <3>4, ReceiveRequestSession
    <3>5. CASE SendResetReply
      BY <1>1, <3>1, <3>5, SendResetReplySession
    <3>6. CASE SendReply
      BY <1>1, <3>1, <3>6, SendReplySession
    <3> QED
      BY <2>2, <3>2, <3>3, <3>4, <3>5, <3>6 DEF SecondaryNext, SessionsAreKept
  <2>3. CASE TunnelNext
    BY <1>1, <2>3, TunnelSession
  <2>4. CASE UNCHANGED vars
    BY <2>4, StutterSession
  <2> QED
    BY <2>1, <2>2, <2>3, <2>4 DEF Next
<1> QED
  BY <1>1, <1>2, <1>3, <1>4, <1>5 DEF IInv

(* Both directions of the link stay synchronised from one handshake to the *)
(* next: CommitAckLocked and ConsumeDataFrameLocked at the two ends are    *)
(* never more than one fragment apart.                                     *)
THEOREM SessionIsKept ==
  ASSUME SessionsAreKept
  PROVE  Spec => []IInv
<1>1. IInv /\ [Next]_vars => IInv'
  BY NextSession
<1> QED
  BY InitSession, <1>1, PTL DEF Spec

-----------------------------------------------------------------------------
(* What follows from it.                                                   *)

(* WriteTunnel gets whole packets only: never bytes of two packets, never  *)
(* a packet with a fragment missing or repeated.                           *)
THEOREM WholePackets ==
  ASSUME SessionsAreKept
  PROVE  Spec => []WritesWholePackets
<1>1. IInv => WritesWholePackets
  <2> SUFFICES ASSUME IInv, NEW n \in Nodes, NEW i \in DOMAIN session_out[n]
               PROVE  session_out[n][i] = Packet(Other(n), PacketNumber(session_out[n][i]))
    BY DEF WritesWholePackets
  <2>1. Other(n) \in Nodes /\ Other(Other(n)) = n
    BY DirectionTypes DEF Nodes, Other
  <2>2. HistoryOK(Other(n), Direction(Other(n)))
    BY <2>1 DEF IInv, SessionInv, PacketsOK
  <2>3. Direction(Other(n)).out = session_out[n]
    BY <2>1 DEF Direction
  <2> QED
    BY <2>2, <2>3 DEF HistoryOK
<1> QED
  BY SessionIsKept, <1>1, PTL

(* Between two resets the packets are written one after the other, and     *)
(* none twice: ConsumeDataFrameLocked recognises every retransmission.     *)
THEOREM ExactlyOnce ==
  ASSUME SessionsAreKept
  PROVE  Spec => []SessionExactlyOnce
<1>1. IInv => SessionExactlyOnce
  <2> SUFFICES ASSUME IInv, NEW n \in Nodes, NEW i \in 1..(Len(session_out[n]) - 1)
               PROVE  PacketNumber(session_out[n][i + 1])
                        = PacketNumber(session_out[n][i]) + 1
    BY DEF SessionExactlyOnce
  <2>1. Other(n) \in Nodes /\ Other(Other(n)) = n
    BY DEF Nodes, Other
  <2>2. HistoryOK(Other(n), Direction(Other(n)))
    BY <2>1 DEF IInv, SessionInv, PacketsOK
  <2>3. Direction(Other(n)).out = session_out[n]
    BY <2>1 DEF Direction
  <2> QED
    BY <2>2, <2>3 DEF HistoryOK
<1> QED
  BY SessionIsKept, <1>1, PTL

(* A packet that is neither queued nor cut was written: CommitAckLocked    *)
(* erases only what the other end has consumed.                            *)
THEOREM NothingIsLost ==
  ASSUME SessionsAreKept
  PROVE  Spec => []NoSilentLoss
<1>1. IInv => NoSilentLoss
  <2> SUFFICES ASSUME IInv, NEW n \in Nodes, NEW k \in 1..tun_read[n]
               PROVE  k \in Queued(n) \cup delivered[Other(n)] \cup cut[n]
    BY DEF NoSilentLoss
  <2> DEFINE d == Direction(n)
  <2>1. d \in Directions
    BY DirectionType DEF IInv, TypeOK
  <2>2. QueueOK(n, d) /\ HistoryOK(n, d)
    BY DEF IInv, SessionInv, PacketsOK
  <2>3. /\ d.queue = mac[n].read_buffer_ /\ d.read = tun_read[n]
        /\ d.delivered = delivered[Other(n)] /\ d.cut = cut[n]
    BY DEF Direction
  <2> HIDE DEF d
  <2>4. d.read \in Nat /\ Len(d.queue) \in Nat /\ DOMAIN d.queue = 1..Len(d.queue)
    BY <2>1, LenProperties DEF Directions
  <2>5. HeadNumber(d) \in Nat /\ HeadNumber(d) = d.read - Len(d.queue) + 1
    BY <2>1, <2>2, HeadPlace DEF HeadNumber
  <2>6. k \in Nat /\ 1 <= k /\ k <= d.read
    BY <2>3, <2>4
  <2>7. CASE k <= HeadNumber(d) - 1
    <3>1. k \in 1..(HeadNumber(d) - 1)
      BY <2>5, <2>6, <2>7
    <3>2. Done(d, k)
      BY <2>2, <3>1 DEF HistoryOK
    <3> QED
      BY <2>3, <3>2 DEF Done
  <2>8. CASE ~(k <= HeadNumber(d) - 1)
    <3> DEFINE i == k - HeadNumber(d) + 1
    <3>1. i \in 1..Len(d.queue) /\ HeadNumber(d) + i - 1 = k
      <4>1. \A r, l, h \in Nat : h = r - l + 1 /\ k <= r /\ ~(k <= h - 1)
              => k - h + 1 \in 1..l /\ h + (k - h + 1) - 1 = k
        BY <2>6
      <4> QED
        BY <2>4, <2>5, <2>6, <2>8, <4>1
    <3> HIDE DEF i
    <3>2. d.queue[i][1].pkt = k
      BY <2>1, <2>2, <3>1, QueuedNumbers
    <3> QED
      BY <2>3, <2>4, <3>1, <3>2 DEF Queued, PacketNumber
  <2> QED
    BY <2>7, <2>8
<1> QED
  BY SessionIsKept, <1>1, PTL

(* Whatever is read, the receiver knows its place, if it does not start   *)
(* anew with what comes next.                                              *)
LEMMA ReadIsExpected ==
  ASSUME IInv, NEW n \in Nodes, rx_fifo[n] # <<>>,
         Linked \/ (n = Peer /\ Head(rx_fifo[n]).type # "Reset")
  PROVE  \E k, p : Expects(Other(n), Direction(Other(n)), k, p)
<1> DEFINE o == Other(n)
           d == Direction(o)
<1>1. o \in Nodes /\ (n = Peer => o = Self)
  BY DEF Nodes, Other, Self, Peer
<1>2. CASE Linked
  <2>1. d \in Directions /\ QueueOK(o, d) /\ Synchronised(o, d)
    BY <1>1, <1>2, DirectionType DEF IInv, TypeOK, SessionInv, PacketsOK, Linked
  <2> HIDE DEF o, d
  <2>2. \E k, p : Expects(o, d, k, p)
    BY <1>1, <2>1, SynchronisedAcks
  <2> QED
    BY <2>2 DEF o, d
<1>3. CASE Apart /\ n = Peer /\ Head(rx_fifo[n]).type # "Reset"
  <2>1. rx_fifo[n] \in Seq(Frame)
    BY DEF IInv, TypeOK, RadioTypeOK
  <2>2. 1 \in DOMAIN rx_fifo[n] /\ rx_fifo[n][1].type # "Reset"
    BY <1>3, <2>1, TailFrame, HeadTailProperties
  <2>3. LeftBehind
    BY <1>3, <2>2 DEF Apart, Reached
  <2> QED
    BY <1>1, <1>3, <2>3 DEF LeftBehind
<1> QED
  BY <1>2, <1>3 DEF IInv, SessionInv

(* What ConsumeDataFrameLocked leaves out because its sequence number is   *)
(* the last one is what it consumed last, and never a new fragment whose   *)
(* number has come round again.                                            *)
THEOREM OnlyRetransmissionsAreLeftOut ==
  ASSUME SessionsAreKept
  PROVE  Spec => []RetransmissionOnly
<1>1. IInv => RetransmissionOnly
  <2> SUFFICES ASSUME IInv, NEW n \in Nodes, rx_fifo[n] # <<>>,
                      Head(rx_fifo[n]).type = "Data", IsDuplicate(mac[n], Head(rx_fifo[n]))
               PROVE  Head(rx_fifo[n]).payload = consumed[n]
    BY DEF RetransmissionOnly
  <2> DEFINE o == Other(n)
             d == Direction(o)
             f == Head(rx_fifo[n])
  <2>1. o \in Nodes /\ Other(o) = n /\ n \in {Self, Peer} /\ (n = Peer => o = Self)
        /\ (n = Self => o = Peer)
    BY DEF Nodes, Other, Self, Peer
  <2>2. d \in Directions
    BY <2>1, DirectionType DEF IInv, TypeOK
  <2>3. d.frames = rx_fifo[n] /\ d.last = mac[n].last_rx_seq_ /\ d.consumed = consumed[n]
    BY <2>1 DEF Direction
  <2>4. rx_fifo[n] \in Seq(Frame)
    BY DEF IInv, TypeOK, RadioTypeOK
  <2>5. 1 \in DOMAIN rx_fifo[n] /\ rx_fifo[n][1] = f
    BY <2>4, HeadTailProperties, EmptySeq, LenProperties
  <2>6. \E k, p : Expects(o, d, k, p)
    <3>1. CASE Linked \/ n = Peer
      BY <3>1, ReadIsExpected
    <3>2. CASE Apart /\ n = Self
      <4>1. mac[Self].last_rx_seq_ = NoSeq
        BY <3>2, NodeNames, ClearedFields DEF Apart, Cleared, IInv, TypeOK, RadioTypeOK
      <4> QED
        BY <3>2, <4>1 DEF IsDuplicate
    <3> QED
      BY <2>1, <3>1, <3>2 DEF IInv, SessionInv
  <2>7. f.seq = d.last /\ d.last # NoSeq
    BY <2>3 DEF IsDuplicate
  <2> HIDE DEF o, d, f
  <2>8. NextSeq(d.last) # d.last
    BY <2>2, NextSeqMoves DEF Directions
  <2>9. IsCopy(d, f)
    BY <2>3, <2>5, <2>6, <2>7, <2>8 DEF Expects, IsFresh, f
  <2> QED
    BY <2>3, <2>9 DEF IsCopy, f
<1> QED
  BY SessionIsKept, <1>1, PTL

(* While a session is open, an ACK on its way to n that fits the fragment  *)
(* n has in flight was sent by an end that has consumed it: so             *)
(* CommitAckLocked may erase it, however often the numbers have wrapped,   *)
(* and whatever RESETs and replies to them are still under way.            *)
THEOREM AcksAreHonest ==
  ASSUME SessionsAreKept
  PROVE  Spec => []AckMeansConsumed
<1>1. IInv => AckMeansConsumed
  <2> SUFFICES ASSUME IInv, ~InHandshake, NEW n \in Nodes, NEW i \in DOMAIN rx_fifo[n],
                      mac[n].tx_in_flight_, rx_fifo[n][i].ack = mac[n].tx_inflight_seq_
               PROVE  mac[n].tx_inflight_payload_ = consumed[Other(n)]
    BY DEF AckMeansConsumed
  <2> DEFINE d == Direction(n)
             m == mac[n]
             current == Head(mac[n].read_buffer_)
  <2>1. n \in {Self, Peer} /\ m \in Mac /\ d \in Directions
    BY DirectionType DEF Nodes, Self, Peer, IInv, TypeOK, RadioTypeOK
  <2>2. QueueOK(n, d)
    BY DEF IInv, SessionInv, PacketsOK
  <2>3. /\ m.read_buffer_ # <<>>
        /\ m.tx_inflight_seq_ = m.next_tx_seq_
        /\ m.tx_inflight_payload_ = SubSeq(current, 1, Least(Len(current), MaxPayload))
    BY DEF IInv, InFlightIsHead, FragmentIsHead
  <2>4. /\ d.queue = m.read_buffer_ /\ d.seq = m.next_tx_seq_ /\ d.flying = m.tx_in_flight_
        /\ d.acks = rx_fifo[n] /\ d.consumed = consumed[Other(n)]
    BY DEF Direction
  <2> HIDE DEF d
  <2>5. d.seq \in 1..MaxSeq /\ d.seq # NoSeq /\ d.last \in Nat
    BY <2>1, <2>2, RadioAssumption DEF QueueOK, NoSeq, Directions, RadioAssumption
  <2>6. Linked
    BY DEF IInv, SessionInv
  <2>7. Synchronised(n, d)
    BY <2>6 DEF Linked, d
  <2>8. ~Due(n, d)
    <3>1. d.acks[i].ack = d.seq /\ i \in DOMAIN d.acks
      BY <2>3, <2>4
    <3>2. NextSeq(d.last) # d.last
      BY <2>5, NextSeqMoves
    <3> QED
      BY <3>1, <3>2 DEF Due
  <2>9. d.consumed = Fragment(n, HeadNumber(d), HeadPos(d))
    BY <2>7, <2>8 DEF Synchronised, Taken
  <2>10. SubSeq(current, 1, Least(Len(current), MaxPayload))
           = Fragment(n, HeadNumber(d), HeadPos(d))
    BY <2>1, <2>2, <2>3, <2>4, HeadFragment
  <2> QED
    BY <2>3, <2>4, <2>9, <2>10
<1> QED
  BY SessionIsKept, <1>1, PTL

(* Only the reply to a RESET ends the Coordinator's reset. *)
LEMMA WhatEndsAReset ==
  ASSUME [Next]_vars, connection_reset_required_, ~connection_reset_required_'
  PROVE  ReceiveResetReply /\ IsResetReply(Head(rx_fifo[Self])) /\ UNCHANGED secondaryVars
<1>1. PrimaryNext
  BY DEF Next, SecondaryNext, TunnelNext, vars, primaryVars, linkVars
<1>2. ~AwaitRetry
  BY DEF AwaitRetry
<1>3. ~StartReset(PeerIsBusy, PeerOwesReset) /\ ~StartExchange(PeerIsBusy)
  BY DEF StartReset, StartExchange, linkVars
<1>4. ~SendReset
  BY FailureOutcomes DEF SendReset, linkVars
<1>5. ~SendRequest
  BY FailureOutcomes DEF SendRequest, linkVars
<1>6. ~ReceiveReply
  BY FailureOutcomes DEF ReceiveReply
<1>7. ~ReceiveTimesOut(PeerIsBusy)
  BY FailureOutcomes DEF ReceiveTimesOut
<1>8. ~RestartPrimary(PeerOwesReset)
  BY DEF RestartPrimary
<1>9. ReceiveResetReply /\ UNCHANGED secondaryVars
  BY <1>1, <1>2, <1>3, <1>4, <1>5, <1>6, <1>7, <1>8 DEF PrimaryNext
<1> QED
  BY <1>9, FailureOutcomes DEF ReceiveResetReply

(* When ConnectionReset returns true, HandleReset has cleared the Peer, no *)
(* request of an earlier session is left there to be answered, and no      *)
(* reply to one is on its way: although ConnectionReset is repeated after  *)
(* each failure whatever the Peer has not yet read or answered.            *)
THEOREM HandshakesSynchronise ==
  ASSUME SessionsAreKept
  PROVE  Spec => HandshakeSynchronises
<1> DEFINE Synchronises == /\ [mac[Peer] EXCEPT !.read_buffer_ = <<>>] = NewMac
                           /\ s_pc # "reply"
                           /\ \A i \in DOMAIN rx_fifo[Peer] : rx_fifo[Peer][i].type = "Reset"
                           /\ rx_fifo'[Self] = <<>>
<1>1. ASSUME IInv, [Next]_vars
      PROVE  [connection_reset_required_ /\ ~connection_reset_required_' => Synchronises]_vars
  <2> SUFFICES ASSUME connection_reset_required_, ~connection_reset_required_'
               PROVE  Synchronises
    OBVIOUS
  <2>1. ReceiveResetReply /\ IsResetReply(Head(rx_fifo[Self]))
    BY <1>1, WhatEndsAReset
  <2>2. Reached
    BY <1>1, <2>1, ResetReplyIsTrue
  <2>3. [mac[Peer] EXCEPT !.read_buffer_ = <<>>] = NewMac
    <3>1. mac[Peer] = ClearedMac(mac[Peer]) /\ mac[Peer] \in Mac
      BY <1>1, <2>2, NodeNames DEF Reached, Cleared, IInv, TypeOK, RadioTypeOK
    <3>2. ASSUME NEW m \in Mac, m = ClearedMac(m)
          PROVE  [m EXCEPT !.read_buffer_ = <<>>] = NewMac
      <4>1. NewMac \in Mac /\ NewMac.read_buffer_ = <<>>
        BY ClearedMacType DEF NewMac
      <4>2. m = [NewMac EXCEPT !.read_buffer_ = m.read_buffer_]
        BY <3>2 DEF ClearedMac
      <4> QED
        BY <4>1, <4>2 DEF Mac
    <3> QED
      BY <3>1, <3>2
  <2>4. rx_fifo'[Self] = <<>>
    BY <1>1, <2>1, NodeNames DEF IInv, TypeOK, RadioTypeOK, ReceiveResetReply, FlushRx
  <2> QED
    BY <2>2, <2>3, <2>4 DEF Reached
<1> QED
  BY SessionIsKept, <1>1, PTL DEF HandshakeSynchronises, Spec

-----------------------------------------------------------------------------
(* The protocol implements PacketLink: each step is one of PacketLink or   *)
(* changes nothing that the IP stacks see.                                 *)

(* The numbers of the packets written. *)
Numbers(packets) == [i \in DOMAIN packets |-> PacketNumber(packets[i])]

LEMMA NumbersOf ==
  ASSUME NEW packets \in Seq(Seq(Byte)), NEW bytes \in Seq(Byte)
  PROVE  /\ Len(Numbers(packets)) = Len(packets)
         /\ Numbers(packets) = <<>> <=> packets = <<>>
         /\ packets # <<>> => Numbers(packets)[Len(packets)] = PacketNumber(packets[Len(packets)])
         /\ Numbers(Append(packets, bytes)) = Append(Numbers(packets), PacketNumber(bytes))
<1> DEFINE S == {PacketNumber(packets[i]) : i \in DOMAIN packets} \cup {PacketNumber(bytes)}
           l == Len(packets)
           s == Numbers(packets)
<1>1. l \in Nat /\ DOMAIN packets = 1..l
  BY LenProperties
<1>2. s \in [1..l -> S]
  BY <1>1 DEF Numbers
<1>3. s \in Seq(S)
  <2> HIDE DEF s, S, l
  <2> QED
    BY <1>1, <1>2, SeqDef
<1>4. Len(s) = l
  BY <1>1, <1>2, <1>3, LenProperties
<1>5. PacketNumber(bytes) \in S
  OBVIOUS
<1>6. /\ Append(packets, bytes) \in Seq(Seq(Byte))
      /\ DOMAIN Append(packets, bytes) = 1..(l + 1)
      /\ \A i \in 1..l : Append(packets, bytes)[i] = packets[i]
      /\ Append(packets, bytes)[l + 1] = bytes
  BY AppendProperties
<1> HIDE DEF S, l
<1>7. /\ Append(s, PacketNumber(bytes)) \in [1..(l + 1) -> S]
      /\ DOMAIN Append(s, PacketNumber(bytes)) = 1..(l + 1)
      /\ \A i \in 1..l : Append(s, PacketNumber(bytes))[i] = s[i]
      /\ Append(s, PacketNumber(bytes))[l + 1] = PacketNumber(bytes)
  <2> HIDE DEF s
  <2> DEFINE e == PacketNumber(bytes)
  <2> HIDE DEF e
  <2>1. e \in S
    BY <1>5 DEF e
  <2>2. /\ Append(s, e) \in Seq(S)
        /\ Len(Append(s, e)) = l + 1
        /\ \A i \in 1..l : Append(s, e)[i] = s[i]
        /\ Append(s, e)[l + 1] = e
    BY <1>3, <1>4, <2>1, AppendProperties
  <2>3. DOMAIN Append(s, e) = 1..(l + 1) /\ Append(s, e) \in [1..(l + 1) -> S]
    BY <2>2, LenProperties
  <2> QED
    BY <2>2, <2>3 DEF e
<1>8. Numbers(Append(packets, bytes)) = [i \in 1..(l + 1) |-> Append(s, PacketNumber(bytes))[i]]
  <2>1. \A i \in 1..(l + 1) : i \in 1..l \/ i = l + 1
    BY <1>1
  <2>2. \A i \in 1..(l + 1) :
          PacketNumber(Append(packets, bytes)[i]) = Append(s, PacketNumber(bytes))[i]
    BY <1>1, <1>6, <1>7, <2>1 DEF Numbers
  <2> QED
    BY <1>6, <2>2 DEF Numbers
<1>9. Append(s, PacketNumber(bytes)) = [i \in 1..(l + 1) |-> Append(s, PacketNumber(bytes))[i]]
  BY <1>7
<1>10. s = <<>> <=> packets = <<>>
  BY <1>1, <1>3, <1>4, EmptySeq DEF l
<1>11. packets # <<>> => s[l] = PacketNumber(packets[l])
  <2> HAVE packets # <<>>
  <2>1. l \in 1..l
    BY <1>1, EmptySeq DEF l
  <2> QED
    BY <1>1, <2>1 DEF Numbers
<1> QED
  BY <1>4, <1>8, <1>9, <1>10, <1>11 DEF l

LEMMA LinkInit == Init => Link!Init
<1> SUFFICES ASSUME Init PROVE Link!Init
  OBVIOUS
<1>1. DOMAIN <<>> = {}
  OBVIOUS
<1> QED
  BY <1>1 DEF Init, RadioInit, Link!Init

LEMMA LinkStutters ==
  ASSUME UNCHANGED <<tun_read, session_out, delivered, cut>>
  PROVE  UNCHANGED Link!vars
BY DEF Link!vars

LEMMA LinkReads ==
  ASSUME TypeOK, NEW n \in Nodes, TunnelThread(n)
  PROVE  Link!Read(n)
BY DEF TunnelThread, Link!Read, TypeOK, RadioTypeOK

LEMMA LinkEndsSession ==
  ASSUME IInv, NEW n \in Nodes, ClearSession(n)
  PROVE  Link!EndSession(n)
<1> DEFINE d == Direction(n)
           m == mac[n]
<1>1. /\ cut \in [Nodes -> SUBSET Nat] /\ session_out \in [Nodes -> Seq(Seq(Byte))]
      /\ d \in Directions
  BY DirectionType DEF IInv, TypeOK, RadioTypeOK
<1>2. /\ session_out' = [session_out EXCEPT ![n] = <<>>]
      /\ cut' = [cut EXCEPT ![n] = @ \cup ShortenedHead(m)]
      /\ UNCHANGED <<tun_read, delivered>>
  BY DEF ClearSession
<1>3. QueueOK(n, d) /\ HistoryOK(n, d)
  BY DEF IInv, SessionInv, PacketsOK
<1>4. /\ d.queue = m.read_buffer_ /\ d.read = tun_read[n]
      /\ d.delivered = delivered[Other(n)] /\ d.cut = cut[n]
  BY DEF Direction
<1> HIDE DEF d, m
<1>5. ASSUME ShortenedHead(m) # {}
      PROVE  /\ ShortenedHead(m) = {HeadNumber(d)} /\ HeadNumber(d) \in 1..tun_read[n]
             /\ Link!IsNext(n, HeadNumber(d))
  <2>1. d.queue # <<>> /\ ShortenedHead(m) = {Head(d.queue)[1].pkt}
    BY <1>4, <1>5 DEF ShortenedHead
  <2>2. d.queue \in Seq(QueuedPacket) /\ Len(d.queue) \in Nat /\ Len(d.queue) >= 1
        /\ Head(d.queue) = d.queue[1]
    BY <1>1, <2>1, HeadTailProperties, EmptySeq, LenProperties DEF Directions
  <2>3. HeadNumber(d) \in Nat \ {0} /\ HeadNumber(d) <= d.read /\ d.read \in Nat
    BY <1>1, <1>3, <2>1, HeadPlace DEF Directions
  <2>4. d.queue[1][1].pkt = HeadNumber(d) + 1 - 1
    <3>1. 1 \in 1..Len(d.queue)
      BY <2>2
    <3> QED
      BY <1>1, <1>3, <3>1, QueuedNumbers
  <2>5. ShortenedHead(m) = {HeadNumber(d)}
    BY <2>1, <2>2, <2>3, <2>4
  <2>6. HeadNumber(d) \in 1..tun_read[n]
    BY <1>4, <2>3
  <2>7. Link!IsNext(n, HeadNumber(d))
    BY <1>3, <1>4 DEF HistoryOK, Done, Link!IsNext
  <2> QED
    BY <2>5, <2>6, <2>7
<1>6. \/ UNCHANGED cut
      \/ \E k \in 1..tun_read[n] :
           Link!IsNext(n, k) /\ cut' = [cut EXCEPT ![n] = @ \cup {k}]
  <2>1. CASE ShortenedHead(m) = {}
    BY <1>1, <1>2, <2>1
  <2>2. CASE ShortenedHead(m) # {}
    BY <1>2, <1>5, <2>2
  <2> QED
    BY <2>1, <2>2
<1>7. [o \in Nodes |-> Numbers(session_out'[o])]
        = [[o \in Nodes |-> Numbers(session_out[o])] EXCEPT ![n] = <<>>]
  <2>1. Numbers(<<>>) = <<>>
    BY DEF Numbers
  <2>2. session_out'[n] = <<>> /\ \A o \in Nodes \ {n} : session_out'[o] = session_out[o]
    BY <1>1, <1>2
  <2> QED
    BY <2>1, <2>2
<1> QED
  BY <1>2, <1>6, <1>7 DEF Link!EndSession, Numbers

LEMMA LinkRestarts ==
  ASSUME IInv, NEW n \in Nodes, n \in Restarts, LoseProcess(n)
  PROVE  Link!Restart(n)
<1> DEFINE d == Direction(n)
           S == {mac[n].read_buffer_[i][1].pkt : i \in DOMAIN mac[n].read_buffer_}
<1>1. session_out \in [Nodes -> Seq(Seq(Byte))] /\ d \in Directions
  BY DirectionType DEF IInv, TypeOK, RadioTypeOK
<1>2. /\ session_out' = [session_out EXCEPT ![n] = <<>>]
      /\ cut' = [cut EXCEPT ![n] = @ \cup S]
      /\ UNCHANGED <<tun_read, delivered>>
  BY DEF LoseProcess
<1>3. QueueOK(n, d)
  BY DEF IInv, SessionInv, PacketsOK
<1>4. d.queue = mac[n].read_buffer_ /\ d.read = tun_read[n]
  BY DEF Direction
<1> HIDE DEF d
<1>5. S \subseteq 1..tun_read[n]
  <2>1. DOMAIN d.queue = 1..Len(d.queue)
    BY <1>1, LenProperties DEF Directions
  <2>2. HeadNumber(d) \in Nat /\ HeadNumber(d) >= 1 /\ Len(d.queue) \in Nat /\ d.read \in Nat
    <3>1. HeadNumber(d) \in Nat /\ HeadNumber(d) >= 1
      BY <1>1, <1>3, HeadPlace
    <3>2. Len(d.queue) \in Nat /\ d.read \in Nat
      BY <1>1, LenProperties DEF Directions
    <3> QED
      BY <3>1, <3>2
  <2> DEFINE l == Len(d.queue)
  <2>3. ASSUME NEW i \in DOMAIN d.queue
        PROVE  d.queue[i][1].pkt \in 1..d.read
    <3>1. i \in Nat /\ 1 <= i /\ i <= Len(d.queue)
      BY <2>1, <2>3
    <3>2. d.queue[i][1].pkt = HeadNumber(d) + i - 1
      BY <1>1, <1>3, <2>1, <2>3, QueuedNumbers
    <3>3. HeadNumber(d) = d.read - l + 1
      BY DEF HeadNumber
    <3> HIDE DEF l
    <3>4. HeadNumber(d) + i - 1 \in 1..d.read
      <4>1. \A h, q, r \in Nat : h >= 1 /\ h = r - q + 1 /\ i <= q => h + i - 1 \in 1..r
        BY <3>1
      <4>2. l \in Nat /\ i <= l
        BY <2>2, <3>1 DEF l
      <4> QED
        BY <2>2, <3>3, <4>1, <4>2
    <3> QED
      BY <3>2, <3>4
  <2> QED
    BY <1>4, <2>3
<1>6. [o \in Nodes |-> Numbers(session_out'[o])]
        = [[o \in Nodes |-> Numbers(session_out[o])] EXCEPT ![n] = <<>>]
  <2>1. Numbers(<<>>) = <<>>
    BY DEF Numbers
  <2>2. session_out'[n] = <<>> /\ \A o \in Nodes \ {n} : session_out'[o] = session_out[o]
    BY <1>1, <1>2
  <2> QED
    BY <2>1, <2>2
<1> HIDE DEF S
<1>7. \E T \in SUBSET (1..tun_read[n]) : cut' = [cut EXCEPT ![n] = @ \cup T]
  BY <1>2, <1>5
<1> QED
  BY <1>2, <1>6, <1>7 DEF Link!Restart, Numbers

LEMMA LinkWrites ==
  ASSUME IInv, TypeOK', NEW n \in Nodes, rx_fifo[n] # <<>>,
         TakeFrame(n, Head(rx_fifo[n])), PopFrame(n),
         NEW k, NEW p, Expects(Other(n), Direction(Other(n)), k, p)
  PROVE  Link!Write(n) \/ UNCHANGED Link!vars
<1> DEFINE o == Other(n)
           d == Direction(o)
           f == Head(rx_fifo[n])
           m == mac[n]
           joined == m.frame_buffer_ \o f.payload
           written == /\ f.type = "Data" /\ ~IsDuplicate(m, f)
                      /\ IsExpected(m, f)
                      /\ CompletesPacket(f) /\ IsValidIpPacket(joined)
<1>1. o \in Nodes /\ Other(o) = n /\ Nodes = {n, o} /\ o # n
  BY DEF Nodes, Other
<1>2. /\ rx_fifo[n] \in Seq(Frame) /\ m.frame_buffer_ \in Seq(Byte)
      /\ session_out \in [Nodes -> Seq(Seq(Byte))] /\ session_out' \in [Nodes -> Seq(Seq(Byte))]
      /\ delivered \in [Nodes -> SUBSET Nat] /\ delivered' \in [Nodes -> SUBSET Nat]
      /\ cut \in [Nodes -> SUBSET Nat] /\ cut' \in [Nodes -> SUBSET Nat]
      /\ tun_read \in [Nodes -> Nat]
  BY DEF IInv, TypeOK, RadioTypeOK, Mac
<1>3. f \in Frame /\ f = rx_fifo[n][1] /\ 1 \in DOMAIN rx_fifo[n] /\ f.payload \in Seq(Byte)
  <2>1. f \in Frame /\ f = rx_fifo[n][1] /\ 1 \in DOMAIN rx_fifo[n]
    BY <1>2, HeadTailProperties, EmptySeq, LenProperties
  <2> QED
    BY <2>1 DEF Frame
<1>4. /\ IF written
         THEN /\ session_out'[n] = Append(session_out[n], joined)
              /\ \/ /\ delivered'[n] = delivered[n] \cup {PacketNumber(joined)}
                    /\ cut' = cut
                 \/ /\ delivered'[n] = delivered[n]
                    /\ cut'[o] = cut[o] \cup {PacketNumber(joined)}
                    /\ cut'[n] = cut[n]
                    /\ n \in FailingWriters
         ELSE UNCHANGED <<session_out, delivered, cut>>
      /\ session_out'[o] = session_out[o]
      /\ delivered'[o] = delivered[o]
      /\ tun_read' = tun_read
  BY <1>3, TakeFrameHistory DEF IInv
<1>5. CASE ~written
  <2>1. UNCHANGED <<tun_read, session_out, delivered, cut>>
    BY <1>4, <1>5
  <2> QED
    BY <2>1, LinkStutters
<1>6. CASE written
  <2>1. d \in Directions /\ QueueOK(o, d)
    BY <1>1, DirectionType DEF IInv, TypeOK, SessionInv, PacketsOK
  <2>2. /\ d.frames = rx_fifo[n] /\ d.last = m.last_rx_seq_ /\ d.buffer = m.frame_buffer_
        /\ d.out = session_out[n] /\ d.delivered = delivered[n] /\ d.cut = cut[o]
        /\ d.read = tun_read[o]
    BY <1>1 DEF Direction
  <2>3. Expects(o, d, k, p)
    OBVIOUS
  <2> HIDE DEF d, o
  <2>4. ~IsCopy(d, f)
    BY <1>6, <2>2 DEF IsCopy, IsDuplicate
  <2>5. IsFresh(o, d, f, k, p) /\ Assembled(o, d, k, p)
    BY <1>3, <1>6, <2>2, <2>3, <2>4 DEF Expects
  <2>6. k \in Nat \ {0} /\ k <= d.read /\ d.read \in Nat /\ d.read <= Len(Traffic[o])
    BY <1>1, <2>1, <2>5, ExpectedPlace DEF IsFresh, QueueOK, Directions
  <2>7. k \in 1..Len(Traffic[o]) /\ k \in 1..tun_read[o]
    <3>1. Len(Traffic[o]) \in Nat
      BY <1>1, RadioAssumption, LenProperties DEF RadioAssumption
    <3> QED
      BY <2>2, <2>6, <3>1
  <2>8. joined = Joined(d, f) /\ Writes(d, f)
    BY <1>6, <2>2 DEF Joined, Writes
  <2>9. PacketNumber(joined) = k
    <3> HIDE DEF joined, f, m, written
    <3>1. PacketNumber(Joined(d, f)) = k
      BY <1>1, <2>1, <2>5, <2>7, <2>8, JoinedFragment
    <3> QED
      BY <2>8, <3>1
  <2>10. joined \in Seq(Byte)
    BY <1>2, <1>3, ConcatProperties
  <2> HIDE DEF joined, f, m, written
  <2>0. delivered'[o] = delivered[o]
    BY <1>4
  <2>11. Link!IsNext(o, k)
    BY <1>1, <2>2, <2>5 DEF Assembled, Done, Link!IsNext
  <2>12. \A j \in delivered[n] : j <= k
    BY <2>2, <2>5 DEF Assembled
  <2>13. session_out[n] \in Seq(Seq(Byte)) /\ Len(session_out[n]) \in Nat
    BY <1>2, LenProperties
  <2>14. /\ Len(Numbers(session_out[n])) = Len(session_out[n])
         /\ Numbers(session_out[n]) = <<>> <=> session_out[n] = <<>>
         /\ session_out[n] # <<>> =>
              Numbers(session_out[n])[Len(session_out[n])]
                = PacketNumber(session_out[n][Len(session_out[n])])
         /\ Numbers(Append(session_out[n], joined))
              = Append(Numbers(session_out[n]), PacketNumber(joined))
    BY <2>10, <2>13, NumbersOf
  <2>15. session_out[n] # <<>> => PacketNumber(session_out[n][Len(session_out[n])]) = k - 1
    BY <2>2, <2>5 DEF Assembled
  <2>16. Numbers(session_out[n]) # <<>> =>
           k = Numbers(session_out[n])[Len(Numbers(session_out[n]))] + 1
    BY <2>6, <2>14, <2>15
  <2>17. /\ Numbers(session_out'[n]) = Append(Numbers(session_out[n]), k)
         /\ session_out'[o] = session_out[o]
    BY <1>4, <1>6, <2>9, <2>14
  <2>18. [q \in Nodes |-> Numbers(session_out'[q])]
           = [[q \in Nodes |-> Numbers(session_out[q])] EXCEPT ![n] = Append(@, k)]
    BY <1>1, <2>17
  <2>19. \/ delivered' = [delivered EXCEPT ![n] = @ \cup {k}] /\ UNCHANGED cut
         \/ /\ n \in FailingWriters
            /\ cut' = [cut EXCEPT ![o] = @ \cup {k}]
            /\ UNCHANGED delivered
    <3>1. CASE delivered'[n] = delivered[n] \cup {k} /\ cut' = cut
      BY <1>1, <1>2, <2>0, <3>1
    <3>2. CASE /\ delivered'[n] = delivered[n] /\ cut'[o] = cut[o] \cup {k}
               /\ cut'[n] = cut[n] /\ n \in FailingWriters
      <4>1. delivered' = delivered
        <5>1. \A q \in Nodes : delivered'[q] = delivered[q]
          BY <1>1, <2>0, <3>2
        <5> QED
          BY <1>2, <5>1
      <4>2. cut' = [cut EXCEPT ![o] = @ \cup {k}]
        BY <1>1, <1>2, <3>2
      <4> QED
        BY <3>2, <4>1, <4>2
    <3>3. \/ delivered'[n] = delivered[n] \cup {k} /\ cut' = cut
          \/ /\ delivered'[n] = delivered[n] /\ cut'[o] = cut[o] \cup {k}
             /\ cut'[n] = cut[n] /\ n \in FailingWriters
      <4>1. \/ delivered'[n] = delivered[n] \cup {PacketNumber(joined)} /\ cut' = cut
            \/ /\ delivered'[n] = delivered[n]
               /\ cut'[o] = cut[o] \cup {PacketNumber(joined)}
               /\ cut'[n] = cut[n] /\ n \in FailingWriters
        BY <1>4, <1>6
      <4> QED
        BY <2>9, <4>1
    <3> QED
      BY <3>1, <3>2, <3>3
  <2>20. Link!Write(n)
    <3>1. [q \in Nodes |-> Numbers(session_out[q])][n] = Numbers(session_out[n])
      OBVIOUS
    <3> QED
      BY <1>4, <2>7, <2>11, <2>12, <2>16, <2>18, <2>19 DEF Link!Write, Numbers, o
  <2> QED
    BY <2>20
<1> QED
  BY <1>5, <1>6

LEMMA LinkSteps ==
  ASSUME IInv, TypeOK', [Next]_vars
  PROVE  [Link!Next]_Link!vars
<1>1. CASE UNCHANGED <<tun_read, session_out, delivered, cut>>
  BY <1>1, LinkStutters
<1>2. ASSUME NEW n \in Nodes, ClearSession(n)
      PROVE  Link!Next
  BY <1>2, LinkEndsSession DEF Link!Next
<1>3. ASSUME NEW n \in Nodes, n \in Restarts, LoseProcess(n)
      PROVE  Link!Next
  BY <1>3, LinkRestarts DEF Link!Next
<1>4. ASSUME NEW n \in Nodes, rx_fifo[n] # <<>>,
             Linked \/ (n = Peer /\ Head(rx_fifo[n]).type # "Reset"),
             TakeFrame(n, Head(rx_fifo[n])), PopFrame(n)
      PROVE  Link!Next \/ UNCHANGED Link!vars
  <2>1. PICK k, p : Expects(Other(n), Direction(Other(n)), k, p)
    BY <1>4, ReadIsExpected
  <2>2. Link!Write(n) \/ UNCHANGED Link!vars
    BY <1>4, <2>1, LinkWrites
  <2> QED
    BY <2>2 DEF Link!Next
<1>5. CASE PrimaryNext
  <2>1. CASE StartReset(PeerIsBusy, PeerOwesReset)
    BY <1>2, <2>1, NodeNames DEF StartReset
  <2>2. CASE ReceiveReply
    <3>1. Linked
      BY <2>2, WhereItIs DEF ReceiveReply
    <3> QED
      BY <1>4, <2>2, <3>1, NodeNames DEF ReceiveReply
  <2>3. CASE "primary" \in Restarts /\ RestartPrimary(PeerOwesReset)
    BY <1>3, <2>3, NodeNames DEF RestartPrimary, Self
  <2>4. CASE AwaitRetry \/ SendReset \/ ReceiveResetReply \/ StartExchange(PeerIsBusy)
             \/ SendRequest \/ ReceiveTimesOut(PeerIsBusy)
    BY <1>1, <2>4 DEF AwaitRetry, SendReset, ReceiveResetReply, StartExchange, SendRequest,
                      ReceiveTimesOut, radioVars
  <2> QED
    BY <1>5, <2>1, <2>2, <2>3, <2>4 DEF PrimaryNext
<1>6. CASE SecondaryNext
  <2>1. CASE ReceiveReset
    BY <1>2, <2>1, NodeNames DEF ReceiveReset
  <2>2. CASE ReceiveRequest
    BY <1>4, <2>2, NodeNames DEF ReceiveRequest
  <2>3. CASE "secondary" \in Restarts /\ RestartSecondary
    BY <1>3, <2>3, NodeNames DEF RestartSecondary, Peer
  <2>4. CASE StartReceive \/ SendResetReply \/ SendReply
    BY <1>1, <2>4 DEF StartReceive, SendResetReply, SendReply
  <2> QED
    BY <1>6, <2>1, <2>2, <2>3, <2>4 DEF SecondaryNext
<1>7. CASE TunnelNext
  BY <1>7, LinkReads DEF TunnelNext, Link!Next, IInv
<1>8. CASE UNCHANGED vars
  BY <1>1, <1>8 DEF vars, radioVars
<1> QED
  BY <1>5, <1>6, <1>7, <1>8 DEF Next

(* The two protocol threads, the two TUN threads and a radio that loses    *)
(* frames and acknowledgements are, to the IP stacks, a pair of FIFO pipes *)
(* of packets in sessions: no packet overtakes an earlier one, none is     *)
(* written twice in a session, and only a reset repeats or cuts one.       *)
THEOREM LinkIsImplemented ==
  ASSUME SessionsAreKept
  PROVE  Spec => ImplementsPacketLink
<1>1. IInv /\ IInv' /\ [Next]_vars => [Link!Next]_Link!vars
  BY LinkSteps DEF IInv
<1> QED
  BY SessionIsKept, LinkInit, <1>1, PTL DEF Spec, ImplementsPacketLink, Link!Spec
=============================================================================
