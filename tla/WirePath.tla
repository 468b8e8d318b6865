------------------------------ MODULE WirePath ------------------------------
(***************************************************************************)
(* One IP packet on its way from TUN device to TUN device, as bytes: the   *)
(* header arithmetic of IsValidIpPacket, the fragments and the 32 bytes    *)
(* that EncodeMacFrame and DecodeMacFrame make of a frame                  *)
(* (src/nerfnet/net/radio_interface.cc). RadioInterface knows packets by   *)
(* name; this module shows what lets it. Lost and repeated frames are its  *)
(* subject, so here a frame sent is received and acknowledged, or both     *)
(* ends reset.                                                             *)
(***************************************************************************)
EXTENDS Integers, Sequences

CONSTANTS
  MaxPacketSize,   (* kMaxPacketSize: 32                                    *)
  HeaderSize,      (* kHeaderSize: 5                                        *)
  Uint8Max,        (* 255                                                   *)
  BufferSize,      (* of TunnelThread's buffer: 3200                        *)
  TunPackets       (* the packets that the IP stack puts on the TUN device  *)

MaxPayload == MaxPacketSize - HeaderSize
Uint8 == 0..Uint8Max

ASSUME WireAssumption ==
  /\ HeaderSize = 5
  /\ MaxPacketSize \in Nat /\ MaxPacketSize > HeaderSize
  /\ Uint8Max = 255 /\ MaxPayload < Uint8Max
  /\ BufferSize \in Nat
  /\ TunPackets \subseteq Seq(Uint8)

Least(a, b) == IF a <= b THEN a ELSE b

-----------------------------------------------------------------------------
(* IsValidIpPacket.                                                        *)

Version(bytes) == bytes[1] \div 16
Ihl(bytes) == 4 * (bytes[1] % 16)
Uint16At(bytes, i) == 256 * bytes[i] + bytes[i + 1]

IsValidIpv4(bytes) ==
  /\ Version(bytes) = 4 /\ Len(bytes) >= 20
  /\ Ihl(bytes) >= 20 /\ Len(bytes) >= Ihl(bytes)
  /\ Uint16At(bytes, 3) >= Ihl(bytes)
  /\ Len(bytes) = Uint16At(bytes, 3)

IsValidIpv6(bytes) ==
  /\ Version(bytes) = 6 /\ Len(bytes) >= 40
  /\ Len(bytes) = 40 + Uint16At(bytes, 5)

(* Mutant: what was reassembled is not looked at. *)
IsNotEmpty(bytes) == bytes # <<>>

IsValidIpPacket(bytes) == bytes # <<>> /\ (IsValidIpv4(bytes) \/ IsValidIpv6(bytes))

-----------------------------------------------------------------------------
(* Frames and their encoding.                                              *)

FrameType == [Invalid |-> 0, Pending |-> 1, Grant |-> 2, Data |-> 3, Ack |-> 4, Reset |-> 5]

Payload == {s \in Seq(Uint8) : Len(s) <= MaxPayload}

MacFrame == [type: Uint8, seq: Uint8, ack: Uint8, pending: Uint8, arg: Uint8,
             payload: Payload]

(* The rest of the packet is filled with zeros. *)
EncodeMacFrame(frame) ==
  [i \in 1..MaxPacketSize |->
     CASE i = 1 -> frame.type
       [] i = 2 -> frame.seq
       [] i = 3 -> frame.ack
       [] i = 4 -> frame.pending
       [] i = 5 -> frame.arg
       [] i > HeaderSize /\ i - HeaderSize <= Len(frame.payload)
            -> frame.payload[i - HeaderSize]
       [] OTHER -> 0]

(* The length of the payload is not sent: it is what arg says is left of   *)
(* the packet, as far as it fits.                                          *)
DecodeMacFrame(packet) ==
  [type |-> packet[1], seq |-> packet[2], ack |-> packet[3],
   pending |-> packet[4], arg |-> packet[5],
   payload |-> IF packet[1] = FrameType.Data /\ packet[5] > 0
               THEN SubSeq(packet, HeaderSize + 1,
                           HeaderSize + Least(packet[5], MaxPayload))
               ELSE <<>>]

(* Mutant: the length is cut to 8 bits, not saturated. *)
BytesLeftIn8Bits(bytes) == Len(bytes) % (Uint8Max + 1)

(* tx_inflight_bytes_left_. *)
BytesLeft(bytes) == Least(Len(bytes), Uint8Max)

(* BuildNextDataFrameLocked for the head of the queue. *)
DataFrame(bytes) ==
  [type |-> FrameType.Data, seq |-> 1, ack |-> 0, pending |-> 1,
   arg |-> BytesLeft(bytes),
   payload |-> SubSeq(bytes, 1, Least(Len(bytes), MaxPayload))]

-----------------------------------------------------------------------------
VARIABLES
  packet,         (* history: the packet that TunnelThread queued last       *)
  current,        (* what is left of it in read_buffer_                      *)
  air,            (* the bytes of the frame in flight, or none               *)
  frame_buffer_,  (* what the receiving end has put together                 *)
  written,        (* history: what it wrote to its TUN since packet was read *)
  cut             (* history: a reset lost a part of packet                  *)

vars == <<packet, current, air, frame_buffer_, written, cut>>

Init ==
  /\ packet = <<>>
  /\ current = <<>>
  /\ air = <<>>
  /\ frame_buffer_ = <<>>
  /\ written = <<>>
  /\ cut = FALSE

(* read fills at most the buffer: the end of a longer packet is gone. *)
BytesRead(p) == SubSeq(p, 1, Least(Len(p), BufferSize))

(* TunnelThread; what it refuses leaves no trace. *)
TunnelThread ==
  /\ current = <<>> /\ air = <<>>
  /\ \E p \in TunPackets :
       /\ IsValidIpPacket(BytesRead(p))
       /\ packet' = BytesRead(p)
       /\ current' = BytesRead(p)
  /\ written' = <<>>
  /\ cut' = FALSE
  /\ UNCHANGED <<air, frame_buffer_>>

SendFragment ==
  /\ current # <<>> /\ air = <<>>
  /\ air' = EncodeMacFrame(DataFrame(current))
  /\ UNCHANGED <<packet, current, frame_buffer_, written, cut>>

(* Mutant: a fragment that fills its frame is not the last. *)
CompletesPacketIfShort(frame) == frame.payload # <<>> /\ frame.arg < MaxPayload

CompletesPacket(frame) == frame.payload # <<>> /\ frame.arg <= MaxPayload

(* ConsumeDataFrameLocked with WriteTunnel, and CommitAckLocked when the   *)
(* ACK is back.                                                            *)
ReceiveFragment ==
  /\ air # <<>>
  /\ LET frame == DecodeMacFrame(air)
         bytes == frame_buffer_ \o frame.payload
         sent == Least(Len(current), Len(DataFrame(current).payload))
     IN  /\ frame_buffer_' = IF CompletesPacket(frame) THEN <<>> ELSE bytes
         /\ written' = IF CompletesPacket(frame) /\ IsValidIpPacket(bytes)
                       THEN Append(written, bytes) ELSE written
         /\ current' = SubSeq(current, sent + 1, Len(current))
  /\ air' = <<>>
  /\ UNCHANGED <<packet, cut>>

(* ConnectionReset and HandleReset: the queue stays as it is. *)
ResetBothEnds ==
  /\ current # <<>>
  /\ air' = <<>>
  /\ frame_buffer_' = <<>>
  /\ cut' = (cut \/ current # packet)
  /\ UNCHANGED <<packet, current, written>>

Next == TunnelThread \/ SendFragment \/ ReceiveFragment \/ ResetBothEnds

Spec == Init /\ [][Next]_vars

-----------------------------------------------------------------------------
(* The variables have their types. *)
TypeOK ==
  /\ packet \in Seq(Uint8)
  /\ current \in Seq(Uint8)
  /\ air \in Seq(Uint8)
  /\ frame_buffer_ \in Seq(Uint8)
  /\ written \in Seq(Seq(Uint8))
  /\ cut \in BOOLEAN

(* A packet that TunnelThread accepted comes out as it went in, whatever   *)
(* its length and however the last fragment falls, unless a reset cut it:  *)
(* the length saturates in bytes_left, the fragment that has at most a     *)
(* payload left is the last one, and the header agrees at both ends.       *)
UncutIsWritten == packet # <<>> /\ current = <<>> /\ ~cut => written = <<packet>>

(* Of a packet that a reset cut, the rest is put together from its first   *)
(* fragment, and only its header tells: the packet is written, once and    *)
(* whole, or nothing is, or a reset has cut it and what is written is the  *)
(* rest from the beginning of a fragment on, itself a packet by its header.*)
WritesPacketOrItsRest ==
  \/ written = <<>>
  \/ \E m \in 0..Len(packet) :
       LET rest == SubSeq(packet, m * MaxPayload + 1, Len(packet))
       IN  /\ written = <<rest>>
           /\ IsValidIpv4(rest) \/ IsValidIpv6(rest)
           /\ m = 0 \/ cut

(* A frame that was sent is the frame that is received, though the length  *)
(* of its payload is not sent.                                             *)
FrameSurvivesCodec == air # <<>> => DecodeMacFrame(air) = DataFrame(current)
=============================================================================
