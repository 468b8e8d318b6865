--------------------------- MODULE RadioInterface ---------------------------
(***************************************************************************)
(* The MAC state and helpers that both ends of the link inherit            *)
(* (src/nerfnet/net/radio_interface.{h,cc}), the nRF24L01 radio as that    *)
(* code uses it, and the thread that reads the TUN device.                 *)
(*                                                                         *)
(* A byte of an IP packet is named by the node whose TUN produced it, the  *)
(* number of the packet there and its position, so a packet is a sequence  *)
(* of bytes and the code's erase, insert and size are SubSeq, \o and Len.  *)
(* A byte at position 1 stands for the IP header: it tells the length of   *)
(* its packet, which is all that IsValidIpPacket compares.                 *)
(*                                                                         *)
(* A definition marked "Mutant" is not part of the model: it is the one    *)
(* below it with a fault, kept to show that the properties notice it.      *)
(***************************************************************************)
EXTENDS Naturals, Sequences

CONSTANTS
  MaxPayload,         (* kMaxPayloadSize: bytes of a packet in one DATA frame *)
  MaxSeq,             (* kMaxSeq: sequence numbers run from 1 to MaxSeq       *)
  Uint8Max,           (* where the code saturates a uint8_t: 255              *)
  MaxBufferedFrames,  (* kMaxBufferedFrames of TunnelThread                   *)
  RxFifoDepth,        (* frames the radio holds unread: 3 on the nRF24L01     *)
  Traffic,            (* Traffic[n]: the lengths of the packets n's TUN yields *)
  FailingWriters      (* nodes whose write to the TUN device may give an error *)

Nodes == {"primary", "secondary"}

(* The address pair makes every frame of one node go to the other. *)
Other(n) == IF n = "primary" THEN "secondary" ELSE "primary"

ASSUME RadioAssumption ==
  /\ MaxPayload \in Nat \ {0}
  /\ MaxSeq \in Nat \ {0, 1}
  /\ Uint8Max \in Nat
  /\ Uint8Max > MaxPayload
  /\ MaxBufferedFrames \in Nat
  /\ RxFifoDepth \in Nat \ {0}
  /\ Traffic \in [Nodes -> Seq(Nat \ {0})]
  /\ FailingWriters \subseteq Nodes

(* kNoSeq. It is also last_rx_seq_ without a value: the code never stores  *)
(* a zero there, and reads an empty one with value_or(kNoSeq).             *)
NoSeq == 0

VARIABLES
  mac,          (* mac[n]: the members guarded by n's read_buffer_mutex_    *)
  rx_fifo,      (* rx_fifo[n]: frames n's radio has acknowledged, unread    *)
  listening,    (* listening[n]: startListening called since stopListening  *)
  tun_read,     (* tun_read[n]: packets n's TunnelThread has read           *)
  session_out,  (* history: packets n gave to write() on its TUN since n    *)
                (* last cleared its MAC state                               *)
  consumed,     (* history: payload of the DATA frame that gave n's         *)
                (* last_rx_seq_ its value                                   *)
  delivered,    (* history: numbers of the other end's packets n ever wrote *)
  cut           (* history: n's packets whose queue entry was lost, or had  *)
                (* been shortened, when n cleared its MAC state, and those  *)
                (* that the other end failed to write                       *)

radioVars == <<mac, rx_fifo, listening, tun_read, session_out, consumed, delivered, cut>>

Least(a, b) == IF a <= b THEN a ELSE b

-----------------------------------------------------------------------------
(* Packets, frames and the MAC state.                                      *)

Byte == [src: Nodes, pkt: Nat, pos: Nat]

(* The k-th packet that n's TUN device yields. *)
Packet(n, k) == [i \in 1..Traffic[n][k] |-> [src |-> n, pkt |-> k, pos |-> i]]

FrameTypes == {"Invalid", "Pending", "Grant", "Data", "Ack", "Reset"}

Frame == [type: FrameTypes, seq: Nat, ack: Nat, pending: Nat, arg: Nat,
          payload: Seq(Byte)]

(* A frame without sequence number or payload. *)
ControlFrame(type, ack, pending, arg) ==
  [type |-> type, seq |-> NoSeq, ack |-> ack, pending |-> pending, arg |-> arg,
   payload |-> <<>>]

(* Of a queued packet at least one byte is still to be sent. *)
QueuedPacket == Seq(Byte) \ {<<>>}

Mac == [read_buffer_: Seq(QueuedPacket), frame_buffer_: Seq(Byte),
        next_tx_seq_: Nat, tx_in_flight_: BOOLEAN, tx_inflight_seq_: Nat,
        tx_inflight_bytes_left_: Nat, tx_inflight_payload_: Seq(Byte),
        last_rx_seq_: Nat]

NewMac == [read_buffer_ |-> <<>>, frame_buffer_ |-> <<>>,
           next_tx_seq_ |-> 1, tx_in_flight_ |-> FALSE, tx_inflight_seq_ |-> NoSeq,
           tx_inflight_bytes_left_ |-> 0, tx_inflight_payload_ |-> <<>>,
           last_rx_seq_ |-> NoSeq]

(* Mutant: last_rx_seq_ survives a reset. *)
ClearedMacKeepingLastRx(m) ==
  [NewMac EXCEPT !.read_buffer_ = m.read_buffer_, !.last_rx_seq_ = m.last_rx_seq_]

(* Mutant: the payload in flight survives a reset. *)
ClearedMacKeepingPayload(m) ==
  [NewMac EXCEPT !.read_buffer_ = m.read_buffer_,
                 !.tx_inflight_payload_ = m.tx_inflight_payload_]

(* What ConnectionReset and HandleReset do under the lock: all but the     *)
(* queue of packets goes back to its initial value.                        *)
ClearedMac(m) == [NewMac EXCEPT !.read_buffer_ = m.read_buffer_]

LocalHasData(m) == m.tx_in_flight_ \/ m.read_buffer_ # <<>>

-----------------------------------------------------------------------------
(* Sequence numbers.                                                       *)

NextSeq(seq) == IF seq = NoSeq \/ seq >= MaxSeq THEN 1 ELSE seq + 1

(* Mutant: the numbers wrap one too early. *)
AdvancedTxSeqWrappingEarly(seq) == IF seq + 1 >= MaxSeq THEN 1 ELSE seq + 1

AdvancedTxSeq(seq) == IF seq + 1 > MaxSeq THEN 1 ELSE seq + 1

-----------------------------------------------------------------------------
(* Transmit side: the frame for the head of the queue, and its ACK.        *)

(* The head fragment becomes the one in flight, unless one already is. *)
WithFragmentInFlight(m) ==
  IF m.tx_in_flight_ \/ m.read_buffer_ = <<>>
  THEN m
  ELSE LET current == Head(m.read_buffer_)
       IN  [m EXCEPT !.tx_in_flight_ = TRUE,
                     !.tx_inflight_seq_ = m.next_tx_seq_,
                     !.tx_inflight_bytes_left_ = Least(Len(current), Uint8Max),
                     !.tx_inflight_payload_ =
                        SubSeq(current, 1, Least(Len(current), MaxPayload))]

(* BuildNextDataFrameLocked, for an m that WithFragmentInFlight returned.  *)
(* Both callers overwrite the pending hint with 1.                         *)
DataFrame(m) ==
  [type |-> "Data", seq |-> m.tx_inflight_seq_, ack |-> m.last_rx_seq_,
   pending |-> 1, arg |-> m.tx_inflight_bytes_left_,
   payload |-> m.tx_inflight_payload_]

(* Mutant: a packet stays queued when the last bytes of it are left. *)
ConsumedButForLast(queue, payload) ==
  IF queue = <<>> \/ Len(Head(queue)) <= Len(payload) THEN queue
  ELSE [queue EXCEPT ![1] = SubSeq(@, Len(payload) + 1, Len(@))]

(* The queue once the acknowledged bytes are erased from its head. *)
Consumed(queue, payload) ==
  IF queue = <<>> THEN queue
  ELSE LET rest == SubSeq(Head(queue), Least(Len(Head(queue)), Len(payload)) + 1,
                          Len(Head(queue)))
       IN  IF rest = <<>> THEN Tail(queue) ELSE [queue EXCEPT ![1] = rest]

(* Mutant: any ACK is for the fragment in flight. *)
IsAnyAck(m, ack_seq) == m.tx_in_flight_

IsAckOfInFlight(m, ack_seq) == m.tx_in_flight_ /\ ack_seq = m.tx_inflight_seq_

CommitAckLocked(m, ack_seq) ==
  IF ~IsAckOfInFlight(m, ack_seq)
  THEN m
  ELSE [m EXCEPT !.read_buffer_ = Consumed(@, m.tx_inflight_payload_),
                 !.tx_in_flight_ = FALSE,
                 !.tx_inflight_seq_ = NoSeq,
                 !.tx_inflight_bytes_left_ = 0,
                 !.tx_inflight_payload_ = <<>>,
                 !.next_tx_seq_ = AdvancedTxSeq(@)]

-----------------------------------------------------------------------------
(* Receive side: reassembly and the write to the TUN device.               *)

(* Mutant: what was reassembled is not looked at. *)
IsNotEmpty(bytes) == bytes # <<>>

(* The version and length tests of IsValidIpPacket: the bytes begin with a *)
(* header, and are as many as that header says.                            *)
IsValidIpPacket(bytes) ==
  /\ bytes # <<>>
  /\ bytes[1].pos = 1
  /\ Len(bytes) = Traffic[bytes[1].src][bytes[1].pkt]

(* Mutant: a retransmission is not recognised. *)
IsNeverDuplicate(m, f) == FALSE

IsDuplicate(m, f) == m.last_rx_seq_ # NoSeq /\ f.seq = m.last_rx_seq_

IsExpected(m, f) ==
  f.seq # NoSeq /\ (m.last_rx_seq_ # NoSeq => f.seq = NextSeq(m.last_rx_seq_))

(* The last fragment of a packet is the one with at most MaxPayload bytes  *)
(* of the packet left.                                                     *)
CompletesPacket(f) == f.payload # <<>> /\ f.arg <= MaxPayload

(* ConsumeDataFrameLocked returns false. *)
IsRefused(m, f) == f.type = "Data" /\ ~IsDuplicate(m, f) /\ ~IsExpected(m, f)

ConsumeDataFrameLocked(m, f) ==
  IF f.type # "Data" \/ IsDuplicate(m, f)
  THEN m
  ELSE IF IsRefused(m, f)
  THEN [m EXCEPT !.frame_buffer_ = <<>>, !.last_rx_seq_ = NoSeq]
  ELSE [m EXCEPT !.last_rx_seq_ = f.seq,
                 !.frame_buffer_ =
                    IF CompletesPacket(f) THEN <<>> ELSE @ \o f.payload]

(* WriteTunnel's first half: the packets, one or none, that consuming f    *)
(* hands to write().                                                       *)
WrittenBy(m, f) ==
  LET bytes == m.frame_buffer_ \o f.payload
  IN  IF /\ f.type = "Data" /\ ~IsDuplicate(m, f) /\ IsExpected(m, f)
         /\ CompletesPacket(f) /\ IsValidIpPacket(bytes)
      THEN <<bytes>> ELSE <<>>

-----------------------------------------------------------------------------
(* Steps on one node's MAC state, with the history they leave.             *)

(* CommitAckLocked and ConsumeDataFrameLocked on a frame received by n, in *)
(* the one critical section where both handlers call them.                 *)
AfterFrame(n, f) == ConsumeDataFrameLocked(CommitAckLocked(mac[n], f.ack), f)

(* WriteTunnel's second half. Its caller is not told of a failed write, so *)
(* the frame is acknowledged all the same.                                 *)
WriteTunnel(n, packets) ==
  \/ /\ delivered' = [delivered EXCEPT ![n] = @ \cup packets]
     /\ UNCHANGED cut
  \/ /\ n \in FailingWriters /\ packets # {}
     /\ cut' = [cut EXCEPT ![Other(n)] = @ \cup packets]
     /\ UNCHANGED delivered

TakeFrame(n, f) ==
  LET out == WrittenBy(mac[n], f)
  IN  /\ mac' = [mac EXCEPT ![n] = AfterFrame(n, f)]
      /\ session_out' = [session_out EXCEPT ![n] = @ \o out]
      /\ consumed' =
            CASE f.type # "Data" \/ IsDuplicate(mac[n], f) -> consumed
              [] IsRefused(mac[n], f) -> [consumed EXCEPT ![n] = <<>>]
              [] OTHER -> [consumed EXCEPT ![n] = f.payload]
      /\ WriteTunnel(n, {out[i][1].pkt : i \in DOMAIN out})
      /\ UNCHANGED tun_read

(* The packet at the head of m's queue, if fragments of it are gone. *)
ShortenedHead(m) ==
  IF m.read_buffer_ # <<>> /\ Head(m.read_buffer_)[1].pos > 1
  THEN {Head(m.read_buffer_)[1].pkt} ELSE {}

ClearSession(n) ==
  /\ mac' = [mac EXCEPT ![n] = ClearedMac(@)]
  /\ session_out' = [session_out EXCEPT ![n] = <<>>]
  /\ consumed' = [consumed EXCEPT ![n] = <<>>]
  /\ cut' = [cut EXCEPT ![n] = @ \cup ShortenedHead(mac[n])]
  /\ UNCHANGED <<tun_read, delivered>>

(* The process of n ends and is started again: the members are lost, and   *)
(* the constructor's radio_.begin() empties the radio.                     *)
LoseProcess(n) ==
  /\ mac' = [mac EXCEPT ![n] = NewMac]
  /\ session_out' = [session_out EXCEPT ![n] = <<>>]
  /\ consumed' = [consumed EXCEPT ![n] = <<>>]
  /\ cut' = [cut EXCEPT ![n] = @ \cup
                {mac[n].read_buffer_[i][1].pkt : i \in DOMAIN mac[n].read_buffer_}]
  /\ rx_fifo' = [rx_fifo EXCEPT ![n] = <<>>]
  /\ listening' = [listening EXCEPT ![n] = FALSE]
  /\ UNCHANGED <<tun_read, delivered>>

-----------------------------------------------------------------------------
(* The radio. A frame is acknowledged by the other end's chip, or reaches  *)
(* its FIFO, only while that end listens and has room. Both are choices of *)
(* the caller: the acknowledgement can be lost after delivery, and the     *)
(* receiving chip acknowledges but discards a frame that it takes for a    *)
(* repetition (equal packet id and checksum).                              *)

CanReach(n) == listening[n] /\ Len(rx_fifo[n]) < RxFifoDepth

Transmit(n, f, acked, arrives) ==
  /\ acked \/ arrives => CanReach(Other(n))
  /\ rx_fifo' = IF arrives
                THEN [rx_fifo EXCEPT ![Other(n)] = Append(@, f)]
                ELSE rx_fifo

(* radio_.read after radio_.available: the oldest frame is taken out. *)
PopFrame(n) == rx_fifo' = [rx_fifo EXCEPT ![n] = Tail(@)]

FlushRx(n) == rx_fifo' = [rx_fifo EXCEPT ![n] = <<>>]

-----------------------------------------------------------------------------
(* Mutant: the thread never sleeps. *)
IsNeverThrottled(n) == FALSE

IsThrottled(n) == Len(mac[n].read_buffer_) > MaxBufferedFrames

(* TunnelThread of node n reads its next packet and queues it. After each  *)
(* push the thread sleeps while the queue holds more than                  *)
(* MaxBufferedFrames, and only the other thread of the node removes        *)
(* packets, so the next read happens in a state where it holds no more.    *)
(* What IsValidIpPacket refuses here leaves no trace.                      *)
TunnelThread(n) ==
  /\ tun_read[n] < Len(Traffic[n])
  /\ ~IsThrottled(n)
  /\ tun_read' = [tun_read EXCEPT ![n] = @ + 1]
  /\ mac' = [mac EXCEPT ![n].read_buffer_ = Append(@, Packet(n, tun_read[n] + 1))]
  /\ UNCHANGED <<rx_fifo, listening, session_out, consumed, delivered, cut>>

RadioInit ==
  /\ mac = [n \in Nodes |-> NewMac]
  /\ rx_fifo = [n \in Nodes |-> <<>>]
  /\ listening = [n \in Nodes |-> FALSE]
  /\ tun_read = [n \in Nodes |-> 0]
  /\ session_out = [n \in Nodes |-> <<>>]
  /\ consumed = [n \in Nodes |-> <<>>]
  /\ delivered = [n \in Nodes |-> {}]
  /\ cut = [n \in Nodes |-> {}]

RadioTypeOK ==
  /\ mac \in [Nodes -> Mac]
  /\ rx_fifo \in [Nodes -> Seq(Frame)]
  /\ listening \in [Nodes -> BOOLEAN]
  /\ tun_read \in [Nodes -> Nat]
  /\ session_out \in [Nodes -> Seq(Seq(Byte))]
  /\ consumed \in [Nodes -> Seq(Byte)]
  /\ delivered \in [Nodes -> SUBSET Nat]
  /\ cut \in [Nodes -> SUBSET Nat]
=============================================================================
