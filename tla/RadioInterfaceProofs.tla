------------------------ MODULE RadioInterfaceProofs ------------------------
(***************************************************************************)
(* What the operators of RadioInterface return: frames and MAC states of   *)
(* their types, for every value of the constants.                          *)
(***************************************************************************)
EXTENDS RadioInterface, TLAPS, SequenceTheorems

(* Both ends have the other one. *)
LEMMA OtherIsNode == \A n \in Nodes : Other(n) \in Nodes
BY DEF Nodes, Other

(* A prefix of a sequence, such as the payload in flight, is one too. *)
LEMMA SubSeqType ==
  ASSUME NEW S, NEW s \in Seq(S), NEW i \in Nat \ {0}, NEW j \in Nat, j <= Len(s)
  PROVE  /\ SubSeq(s, i, j) \in Seq(S)
         /\ Len(SubSeq(s, i, j)) = IF i <= j THEN j - i + 1 ELSE 0
         /\ \A k \in 1..(j - i + 1) : SubSeq(s, i, j)[k] = s[i + k - 1]
<1>1. i \in Int /\ j \in Int
  OBVIOUS
<1>2. \A k \in i..j : s[k] \in S
  BY ElementOfSeq, LenProperties
<1> QED
  BY <1>1, <1>2, SubSeqProperties

LEMMA LeastType ==
  ASSUME NEW a \in Nat, NEW b \in Nat
  PROVE  Least(a, b) \in Nat /\ Least(a, b) <= a /\ Least(a, b) <= b
BY DEF Least

(* The packets that a TUN device yields can be queued. *)
LEMMA PacketType ==
  ASSUME NEW n \in Nodes, NEW k \in 1..Len(Traffic[n])
  PROVE  Packet(n, k) \in QueuedPacket
<1>1. Traffic[n] \in Seq(Nat \ {0})
  BY RadioAssumption DEF RadioAssumption
<1>2. Traffic[n][k] \in Nat \ {0}
  BY <1>1, ElementOfSeq
<1>3. Len(Traffic[n]) \in Nat
  BY <1>1, LenProperties
<1>4. Packet(n, k) \in [1..Traffic[n][k] -> Byte]
  BY <1>2, <1>3 DEF Packet, Byte
<1>5. Packet(n, k) \in Seq(Byte)
  BY <1>2, <1>4
<1>6. Packet(n, k) # <<>>
  BY <1>2, <1>4
<1> QED
  BY <1>5, <1>6 DEF QueuedPacket

(* Frames without payload are frames. *)
LEMMA ControlFrameType ==
  ASSUME NEW type \in FrameTypes, NEW ack \in Nat, NEW pending \in Nat, NEW arg \in Nat
  PROVE  ControlFrame(type, ack, pending, arg) \in Frame
<1>1. <<>> \in Seq(Byte)
  BY EmptySeq
<1> QED
  BY <1>1 DEF ControlFrame, Frame, NoSeq

LEMMA ClearedMacType ==
  /\ NewMac \in Mac
  /\ \A m \in Mac : ClearedMac(m) \in Mac
<1>1. <<>> \in Seq(Byte) /\ <<>> \in Seq(QueuedPacket)
  BY EmptySeq
<1>2. NewMac \in Mac
  BY <1>1 DEF NewMac, Mac, NoSeq
<1>3. ASSUME NEW m \in Mac PROVE ClearedMac(m) \in Mac
  BY <1>2 DEF ClearedMac, NewMac, Mac
<1> QED
  BY <1>2, <1>3

LEMMA SeqNumberType ==
  ASSUME NEW seq \in Nat
  PROVE  NextSeq(seq) \in Nat /\ AdvancedTxSeq(seq) \in Nat
BY DEF NextSeq, AdvancedTxSeq

(* BuildNextDataFrameLocked keeps the MAC state well-formed. *)
LEMMA WithFragmentInFlightType ==
  ASSUME NEW m \in Mac
  PROVE  WithFragmentInFlight(m) \in Mac
<1>1. CASE m.tx_in_flight_ \/ m.read_buffer_ = <<>>
  BY <1>1 DEF WithFragmentInFlight
<1>2. CASE ~(m.tx_in_flight_ \/ m.read_buffer_ = <<>>)
  <2> DEFINE current == Head(m.read_buffer_)
  <2>1. current \in Seq(Byte)
    BY <1>2, HeadTailProperties DEF Mac, QueuedPacket
  <2>2. Len(current) \in Nat
    BY <2>1, LenProperties
  <2>3. Least(Len(current), Uint8Max) \in Nat
    BY <2>2, LeastType, RadioAssumption DEF RadioAssumption
  <2>4. SubSeq(current, 1, Least(Len(current), MaxPayload)) \in Seq(Byte)
    <3>1. /\ Least(Len(current), MaxPayload) \in Nat
          /\ Least(Len(current), MaxPayload) <= Len(current)
      BY <2>2, LeastType, RadioAssumption DEF RadioAssumption
    <3> QED
      BY <2>1, <3>1, SubSeqType
  <2> HIDE DEF current
  <2>5. WithFragmentInFlight(m)
          = [m EXCEPT !.tx_in_flight_ = TRUE,
                      !.tx_inflight_seq_ = m.next_tx_seq_,
                      !.tx_inflight_bytes_left_ = Least(Len(current), Uint8Max),
                      !.tx_inflight_payload_ =
                        SubSeq(current, 1, Least(Len(current), MaxPayload))]
    BY <1>2 DEF WithFragmentInFlight, current
  <2> QED
    BY <2>3, <2>4, <2>5 DEF Mac
<1> QED
  BY <1>1, <1>2

LEMMA DataFrameType ==
  ASSUME NEW m \in Mac
  PROVE  DataFrame(m) \in Frame
BY DEF DataFrame, Frame, FrameTypes, Mac

(* Erasing acknowledged bytes leaves no empty packet in the queue. *)
LEMMA ConsumedType ==
  ASSUME NEW queue \in Seq(QueuedPacket), NEW payload \in Seq(Byte)
  PROVE  Consumed(queue, payload) \in Seq(QueuedPacket)
<1>1. CASE queue = <<>>
  BY <1>1 DEF Consumed
<1>2. CASE queue # <<>>
  <2> DEFINE h == Head(queue)
             rest == SubSeq(h, Least(Len(h), Len(payload)) + 1, Len(h))
  <2>1. h \in Seq(Byte) /\ Tail(queue) \in Seq(QueuedPacket)
    BY <1>2, HeadTailProperties DEF QueuedPacket
  <2>2. Len(h) \in Nat /\ Len(payload) \in Nat
    BY <2>1, LenProperties
  <2>3. Least(Len(h), Len(payload)) + 1 \in Nat \ {0}
    <3>1. Least(Len(h), Len(payload)) \in Nat
      BY <2>2, LeastType
    <3> QED
      BY <3>1
  <2>4. rest \in Seq(Byte)
    BY <2>1, <2>2, <2>3, SubSeqType
  <2>5. 1 \in 1..Len(queue)
    BY <1>2, EmptySeq, LenProperties
  <2> HIDE DEF rest
  <2>6. rest # <<>> => [queue EXCEPT ![1] = rest] \in Seq(QueuedPacket)
    BY <2>4, <2>5, ExceptSeq DEF QueuedPacket
  <2>7. Consumed(queue, payload)
          = IF rest = <<>> THEN Tail(queue) ELSE [queue EXCEPT ![1] = rest]
    BY <1>2 DEF Consumed, rest
  <2> QED
    BY <2>1, <2>6, <2>7
<1> QED
  BY <1>1, <1>2

LEMMA CommitAckLockedType ==
  ASSUME NEW m \in Mac, NEW ack \in Nat
  PROVE  CommitAckLocked(m, ack) \in Mac
<1>1. Consumed(m.read_buffer_, m.tx_inflight_payload_) \in Seq(QueuedPacket)
  BY ConsumedType DEF Mac
<1>2. AdvancedTxSeq(m.next_tx_seq_) \in Nat
  BY SeqNumberType DEF Mac
<1>3. <<>> \in Seq(Byte)
  BY EmptySeq
<1> QED
  BY <1>1, <1>2, <1>3 DEF CommitAckLocked, Mac, NoSeq

LEMMA ConsumeDataFrameLockedType ==
  ASSUME NEW m \in Mac, NEW f \in Frame
  PROVE  ConsumeDataFrameLocked(m, f) \in Mac
<1>1. <<>> \in Seq(Byte)
  BY EmptySeq
<1>2. m.frame_buffer_ \o f.payload \in Seq(Byte)
  BY ConcatProperties DEF Mac, Frame
<1> QED
  BY <1>1, <1>2 DEF ConsumeDataFrameLocked, Mac, Frame, NoSeq

(* WriteTunnel writes non-empty packets. *)
LEMMA WrittenByType ==
  ASSUME NEW m \in Mac, NEW f \in Frame
  PROVE  WrittenBy(m, f) \in Seq(QueuedPacket)
<1> DEFINE bytes == m.frame_buffer_ \o f.payload
<1>1. bytes \in Seq(Byte)
  BY ConcatProperties DEF Mac, Frame
<1> HIDE DEF bytes
<1>2. IsValidIpPacket(bytes) => <<bytes>> \in Seq(QueuedPacket)
  BY <1>1 DEF IsValidIpPacket, QueuedPacket
<1>3. <<>> \in Seq(QueuedPacket)
  BY EmptySeq
<1>4. \/ WrittenBy(m, f) = <<bytes>> /\ IsValidIpPacket(bytes)
      \/ WrittenBy(m, f) = <<>>
  BY DEF WrittenBy, bytes
<1> QED
  BY <1>2, <1>3, <1>4

(* The first byte of a packet that is not empty tells its number. *)
LEMMA FirstByteType ==
  ASSUME NEW bytes \in QueuedPacket
  PROVE  bytes[1] \in Byte /\ bytes[1].pkt \in Nat
<1>1. 1 \in 1..Len(bytes)
  BY EmptySeq, LenProperties DEF QueuedPacket
<1>2. bytes[1] \in Byte
  BY <1>1, ElementOfSeq DEF QueuedPacket
<1> QED
  BY <1>2 DEF Byte
-----------------------------------------------------------------------------
(* Steps on the radio and on one node's MAC state keep the types.          *)

LEMMA HeadOfFifo ==
  ASSUME RadioTypeOK, NEW n \in Nodes, rx_fifo[n] # <<>>
  PROVE  Head(rx_fifo[n]) \in Frame /\ Tail(rx_fifo[n]) \in Seq(Frame)
<1>1. rx_fifo[n] \in Seq(Frame)
  BY DEF RadioTypeOK
<1> QED
  BY <1>1, HeadTailProperties

LEMMA TransmitType ==
  ASSUME RadioTypeOK, NEW n \in Nodes, NEW f \in Frame, NEW acked, NEW arrives,
         Transmit(n, f, acked, arrives)
  PROVE  rx_fifo' \in [Nodes -> Seq(Frame)]
<1>1. Append(rx_fifo[Other(n)], f) \in Seq(Frame)
  BY OtherIsNode, AppendProperties DEF RadioTypeOK
<1> QED
  BY <1>1 DEF Transmit, RadioTypeOK

LEMMA PopFrameType ==
  ASSUME RadioTypeOK, NEW n \in Nodes, rx_fifo[n] # <<>>, PopFrame(n)
  PROVE  rx_fifo' \in [Nodes -> Seq(Frame)]
BY HeadOfFifo DEF PopFrame, RadioTypeOK

LEMMA FlushRxType ==
  ASSUME RadioTypeOK, NEW n \in Nodes, FlushRx(n)
  PROVE  rx_fifo' \in [Nodes -> Seq(Frame)]
BY EmptySeq DEF FlushRx, RadioTypeOK

LEMMA AfterFrameType ==
  ASSUME RadioTypeOK, NEW n \in Nodes, NEW f \in Frame
  PROVE  AfterFrame(n, f) \in Mac
<1>1. mac[n] \in Mac /\ f.ack \in Nat
  BY DEF RadioTypeOK, Frame
<1>2. CommitAckLocked(mac[n], f.ack) \in Mac
  BY <1>1, CommitAckLockedType
<1> QED
  BY <1>2, ConsumeDataFrameLockedType DEF AfterFrame

(* The members of node n and the histories, after a step of n on them. *)
NodeTypeOK ==
  /\ mac \in [Nodes -> Mac]
  /\ tun_read \in [Nodes -> Nat]
  /\ session_out \in [Nodes -> Seq(Seq(Byte))]
  /\ consumed \in [Nodes -> Seq(Byte)]
  /\ delivered \in [Nodes -> SUBSET Nat]
  /\ cut \in [Nodes -> SUBSET Nat]

LEMMA TakeFrameType ==
  ASSUME RadioTypeOK, NEW n \in Nodes, NEW f \in Frame, TakeFrame(n, f)
  PROVE  NodeTypeOK'
<1> DEFINE out == WrittenBy(mac[n], f)
<1>1. mac[n] \in Mac /\ f.payload \in Seq(Byte)
  BY DEF RadioTypeOK, Frame
<1>2. out \in Seq(QueuedPacket)
  BY <1>1, WrittenByType
<1> HIDE DEF out
<1>3. session_out[n] \o out \in Seq(Seq(Byte))
  <2>1. out \in Seq(Seq(Byte))
    BY <1>2, SeqMonotonic DEF QueuedPacket
  <2> QED
    BY <2>1, ConcatProperties DEF RadioTypeOK
<1>4. {out[i][1].pkt : i \in DOMAIN out} \subseteq Nat
  <2>1. \A i \in DOMAIN out : out[i] \in QueuedPacket
    BY <1>2, LenProperties, ElementOfSeq
  <2> QED
    BY <2>1, FirstByteType
<1>5. mac' \in [Nodes -> Mac]
  BY AfterFrameType DEF TakeFrame, RadioTypeOK
<1>6. session_out' \in [Nodes -> Seq(Seq(Byte))]
  BY <1>3 DEF TakeFrame, RadioTypeOK, out
<1>7. consumed' \in [Nodes -> Seq(Byte)]
  BY <1>1, EmptySeq DEF TakeFrame, RadioTypeOK
<1>8. delivered' \in [Nodes -> SUBSET Nat] /\ cut' \in [Nodes -> SUBSET Nat]
  <2>1. WriteTunnel(n, {out[i][1].pkt : i \in DOMAIN out})
    BY DEF TakeFrame, out
  <2> QED
    BY <1>4, <2>1 DEF WriteTunnel, RadioTypeOK
<1> QED
  BY <1>5, <1>6, <1>7, <1>8 DEF TakeFrame, RadioTypeOK, NodeTypeOK

(* The numbers of queued packets. *)
LEMMA QueuedNumberType ==
  ASSUME NEW m \in Mac
  PROVE  /\ \A i \in DOMAIN m.read_buffer_ : m.read_buffer_[i][1].pkt \in Nat
         /\ ShortenedHead(m) \subseteq Nat
<1>1. m.read_buffer_ \in Seq(QueuedPacket)
  BY DEF Mac
<1>2. \A i \in DOMAIN m.read_buffer_ : m.read_buffer_[i][1].pkt \in Nat
  BY <1>1, LenProperties, ElementOfSeq, FirstByteType
<1>3. m.read_buffer_ # <<>> => Head(m.read_buffer_)[1].pkt \in Nat
  BY <1>1, HeadTailProperties, FirstByteType
<1> QED
  BY <1>2, <1>3 DEF ShortenedHead

LEMMA ClearSessionType ==
  ASSUME RadioTypeOK, NEW n \in Nodes, ClearSession(n)
  PROVE  NodeTypeOK'
<1>1. mac[n] \in Mac
  BY DEF RadioTypeOK
<1>2. mac' \in [Nodes -> Mac]
  BY <1>1, ClearedMacType DEF ClearSession, RadioTypeOK
<1>3. cut' \in [Nodes -> SUBSET Nat]
  BY <1>1, QueuedNumberType DEF ClearSession, RadioTypeOK
<1> QED
  BY <1>2, <1>3, EmptySeq DEF ClearSession, RadioTypeOK, NodeTypeOK

LEMMA LoseProcessType ==
  ASSUME RadioTypeOK, NEW n \in Nodes, LoseProcess(n)
  PROVE  RadioTypeOK'
<1>1. mac[n] \in Mac
  BY DEF RadioTypeOK
<1>2. mac' \in [Nodes -> Mac]
  BY ClearedMacType DEF LoseProcess, RadioTypeOK
<1>3. cut' \in [Nodes -> SUBSET Nat]
  <2>1. {mac[n].read_buffer_[i][1].pkt : i \in DOMAIN mac[n].read_buffer_} \subseteq Nat
    BY <1>1, QueuedNumberType
  <2> QED
    BY <2>1 DEF LoseProcess, RadioTypeOK
<1>4. rx_fifo' \in [Nodes -> Seq(Frame)] /\ listening' \in [Nodes -> BOOLEAN]
  BY EmptySeq DEF LoseProcess, RadioTypeOK
<1> QED
  BY <1>2, <1>3, <1>4, EmptySeq DEF LoseProcess, RadioTypeOK

(* What TunnelThread pushes is a packet. *)
LEMMA NextPacketType ==
  ASSUME RadioTypeOK, NEW n \in Nodes, TunnelThread(n)
  PROVE  tun_read[n] \in Nat /\ Packet(n, tun_read[n] + 1) \in QueuedPacket
<1>1. tun_read[n] \in Nat /\ Len(Traffic[n]) \in Nat
  BY RadioAssumption, LenProperties DEF RadioTypeOK, RadioAssumption
<1>2. tun_read[n] + 1 \in 1..Len(Traffic[n])
  BY <1>1 DEF TunnelThread
<1> QED
  BY <1>1, <1>2, PacketType

LEMMA TunnelThreadType ==
  ASSUME RadioTypeOK, NEW n \in Nodes, TunnelThread(n)
  PROVE  RadioTypeOK'
<1> DEFINE k == tun_read[n] + 1
<1>1. tun_read[n] \in Nat /\ Packet(n, k) \in QueuedPacket
  BY NextPacketType
<1>2. mac[n] \in Mac
  BY DEF RadioTypeOK
<1> HIDE DEF k
<1>3. Append(mac[n].read_buffer_, Packet(n, k)) \in Seq(QueuedPacket)
  BY <1>1, <1>2, AppendProperties DEF Mac
<1>4. mac' = [mac EXCEPT ![n].read_buffer_ = Append(mac[n].read_buffer_, Packet(n, k))]
  BY DEF TunnelThread, k
<1>5. [mac[n] EXCEPT !.read_buffer_ = Append(mac[n].read_buffer_, Packet(n, k))] \in Mac
  BY <1>2, <1>3 DEF Mac
<1>6. mac' \in [Nodes -> Mac]
  BY <1>4, <1>5 DEF RadioTypeOK
<1>7. tun_read' \in [Nodes -> Nat]
  BY <1>1 DEF TunnelThread, RadioTypeOK
<1> QED
  BY <1>6, <1>7 DEF TunnelThread, RadioTypeOK
=============================================================================
