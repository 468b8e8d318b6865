--------------------------- MODULE WirePathProofs ---------------------------
(***************************************************************************)
(* What holds of WirePath for every packet and every size of the frames:   *)
(* the codec loses nothing, and the fragments of a packet make that packet *)
(* again.                                                                  *)
(***************************************************************************)
EXTENDS WirePath, SequenceTheorems, TLAPS

LEMMA MaxPayloadType ==
  MaxPayload \in Nat /\ MaxPayload > 0 /\ MaxPayload < 255 /\ MaxPacketSize = MaxPayload + 5
BY WireAssumption DEF MaxPayload

LEMMA Uint8Type ==
  /\ Uint8Max = 255
  /\ \A x \in Uint8 : x \in Nat
  /\ \A x \in 0..255 : x \in Uint8
BY WireAssumption DEF Uint8

(* A part of a sequence, possibly empty. *)
LEMMA SubSeqFacts ==
  ASSUME NEW S, NEW s \in Seq(S), NEW i \in Nat \ {0}, NEW j \in Nat, j <= Len(s)
  PROVE  /\ SubSeq(s, i, j) \in Seq(S)
         /\ Len(SubSeq(s, i, j)) = IF i <= j THEN j - i + 1 ELSE 0
         /\ \A k \in 1..(j - i + 1) : SubSeq(s, i, j)[k] = s[i + k - 1]
<1>1. i \in Int /\ j \in Int
  OBVIOUS
<1>2. \A k \in i..j : s[k] \in S
  BY ElementOfSeq, LenProperties
<1> QED
  BY <1>1, <1>2, SubSeqProperties

(* Two parts that meet make one. *)
LEMMA PartsMeet ==
  ASSUME NEW S, NEW s \in Seq(S), NEW a \in Nat, NEW b \in Nat, NEW c \in Nat,
         a <= b, b <= c, c <= Len(s)
  PROVE  SubSeq(s, a + 1, b) \o SubSeq(s, b + 1, c) = SubSeq(s, a + 1, c)
<1> DEFINE left == SubSeq(s, a + 1, b)
<1> DEFINE right == SubSeq(s, b + 1, c)
<1> DEFINE whole == SubSeq(s, a + 1, c)
<1>1. /\ left \in Seq(S) /\ Len(left) = b - a
      /\ \A k \in 1..(b - a) : left[k] = s[a + k]
  BY SubSeqFacts
<1>2. /\ right \in Seq(S) /\ Len(right) = c - b
      /\ \A k \in 1..(c - b) : right[k] = s[b + k]
  BY SubSeqFacts
<1>3. /\ whole \in Seq(S) /\ Len(whole) = c - a
      /\ \A k \in 1..(c - a) : whole[k] = s[a + k]
  BY SubSeqFacts
<1> HIDE DEF left, right, whole
<1>4. /\ left \o right \in Seq(S) /\ Len(left \o right) = c - a
      /\ \A k \in 1..(c - a) :
           (left \o right)[k] = IF k <= b - a THEN left[k] ELSE right[k - (b - a)]
  <2>1. /\ left \o right \in Seq(S)
        /\ Len(left \o right) = Len(left) + Len(right)
        /\ \A k \in 1..(Len(left) + Len(right)) :
             (left \o right)[k] = IF k <= Len(left) THEN left[k] ELSE right[k - Len(left)]
    BY <1>1, <1>2, ConcatProperties
  <2>2. (b - a) + (c - b) = c - a
    OBVIOUS
  <2> QED
    BY <1>1, <1>2, <2>1, <2>2
<1>5. \A k \in 1..(c - a) : (left \o right)[k] = whole[k]
  <2> TAKE k \in 1..(c - a)
  <2>1. CASE k <= b - a
    <3>1. k \in 1..(b - a)
      BY <2>1
    <3> QED
      BY <1>1, <1>3, <1>4, <2>1, <3>1
  <2>2. CASE ~(k <= b - a)
    <3>1. k - (b - a) \in 1..(c - b) /\ b + (k - (b - a)) = a + k
      BY <2>2
    <3> QED
      BY <1>2, <1>3, <1>4, <2>2, <3>1
  <2> QED
    BY <2>1, <2>2
<1> QED
  BY <1>3, <1>4, <1>5, SeqEqual DEF left, right, whole

-----------------------------------------------------------------------------
(* The header.                                                             *)

(* A valid packet is not the beginning of a longer one: when the last      *)
(* fragments of a packet are missing, IsValidIpPacket refuses the rest.    *)
THEOREM NoValidPrefix ==
  ASSUME NEW p \in Seq(Uint8), NEW n \in 1..Len(p), IsValidIpPacket(p),
         IsValidIpPacket(SubSeq(p, 1, n))
  PROVE  n = Len(p)
<1> DEFINE q == SubSeq(p, 1, n)
<1>1. q \in Seq(Uint8) /\ Len(q) = n /\ \A k \in 1..n : q[k] = p[k]
  BY SubSeqFacts
<1>2. \A k \in 1..Len(p) : p[k] \in Nat
  BY Uint8Type, ElementOfSeq
<1>3. IsValidIpPacket(q) /\ Len(q) >= 20
  BY <1>1 DEF IsValidIpPacket, IsValidIpv4, IsValidIpv6
<1> HIDE DEF q
<1>4. q[1] = p[1] /\ q[3] = p[3] /\ q[4] = p[4] /\ q[5] = p[5] /\ q[6] = p[6]
  BY <1>1, <1>3
<1>5. Version(q) = Version(p) /\ Uint16At(q, 3) = Uint16At(p, 3) /\ Uint16At(q, 5) = Uint16At(p, 5)
  BY <1>4 DEF Version, Uint16At
<1>6. CASE Version(p) = 4
  BY <1>1, <1>3, <1>5, <1>6 DEF IsValidIpPacket, IsValidIpv4, IsValidIpv6
<1>7. CASE Version(p) = 6
  BY <1>1, <1>3, <1>5, <1>7 DEF IsValidIpPacket, IsValidIpv4, IsValidIpv6
<1> QED
  BY <1>6, <1>7 DEF IsValidIpPacket, IsValidIpv4, IsValidIpv6

-----------------------------------------------------------------------------
(* The codec.                                                              *)

(* The frames the program sends: what arg says is left of the packet, as   *)
(* far as it fits, is in a DATA frame, and nothing in any other.           *)
IsSent(frame) ==
  Len(frame.payload) = IF frame.type = FrameType.Data THEN Least(frame.arg, MaxPayload) ELSE 0

LEMMA EncodedType ==
  ASSUME NEW frame \in MacFrame
  PROVE  /\ EncodeMacFrame(frame) \in Seq(Uint8)
         /\ Len(EncodeMacFrame(frame)) = MaxPacketSize
         /\ EncodeMacFrame(frame) # <<>>
<1>1. /\ frame.type \in Uint8 /\ frame.seq \in Uint8 /\ frame.ack \in Uint8
      /\ frame.pending \in Uint8 /\ frame.arg \in Uint8
      /\ frame.payload \in Seq(Uint8)
      /\ 0 \in Uint8 /\ MaxPacketSize \in Nat /\ HeaderSize = 5 /\ MaxPacketSize > 5
  BY WireAssumption DEF MacFrame, Payload, Uint8
<1>2. \A k \in 1..Len(frame.payload) : frame.payload[k] \in Uint8
  BY <1>1
<1>3. \A i \in 1..MaxPacketSize : EncodeMacFrame(frame)[i] \in Uint8
  <2> SUFFICES ASSUME NEW i \in 1..MaxPacketSize PROVE EncodeMacFrame(frame)[i] \in Uint8
    OBVIOUS
  <2>1. i > HeaderSize /\ i - HeaderSize <= Len(frame.payload)
          => frame.payload[i - HeaderSize] \in Uint8
    BY <1>1, <1>2, LenProperties
  <2> QED
    BY <1>1, <2>1 DEF EncodeMacFrame
<1>4. EncodeMacFrame(frame) \in [1..MaxPacketSize -> Uint8]
  BY <1>3 DEF EncodeMacFrame
<1> QED
  BY <1>1, <1>4

(* The length of the payload is not sent, and yet every frame that the     *)
(* program sends is decoded to what was encoded.                           *)
THEOREM CodecRoundTrip ==
  ASSUME NEW frame \in MacFrame, IsSent(frame)
  PROVE  DecodeMacFrame(EncodeMacFrame(frame)) = frame
<1> DEFINE bytes == EncodeMacFrame(frame)
<1> DEFINE n == Len(frame.payload)
<1>1. /\ frame.payload \in Seq(Uint8) /\ n \in Nat /\ n <= MaxPayload
      /\ frame.arg \in Nat
      /\ MaxPayload \in Nat /\ MaxPayload > 0 /\ MaxPacketSize = MaxPayload + 5
      /\ HeaderSize = 5
  <2>1. frame.payload \in Payload /\ frame.arg \in Nat
    BY Uint8Type DEF MacFrame
  <2>2. frame.payload \in Seq(Uint8) /\ n <= MaxPayload
    BY <2>1 DEF Payload
  <2>3. n \in Nat
    BY <2>2, LenProperties
  <2> HIDE DEF n
  <2> QED
    BY <2>1, <2>2, <2>3, WireAssumption, MaxPayloadType, Zenon
<1>2. /\ bytes[1] = frame.type /\ bytes[2] = frame.seq /\ bytes[3] = frame.ack
      /\ bytes[4] = frame.pending /\ bytes[5] = frame.arg
  BY <1>1 DEF EncodeMacFrame
<1>3. \A k \in 1..n : bytes[5 + k] = frame.payload[k]
  <2> SUFFICES ASSUME NEW k \in 1..n PROVE bytes[5 + k] = frame.payload[k]
    OBVIOUS
  <2>1. 5 + k \in 1..MaxPacketSize /\ 5 + k > 5 /\ (5 + k) - 5 = k /\ k <= n
    BY <1>1
  <2> QED
    BY <1>1, <2>1 DEF EncodeMacFrame
<1>4. bytes \in Seq(Uint8) /\ Len(bytes) = MaxPacketSize
  BY EncodedType
<1>5. DecodeMacFrame(bytes).payload = frame.payload
  <2>1. CASE frame.type = FrameType.Data /\ frame.arg > 0
    <3>1. n = Least(frame.arg, MaxPayload)
      BY <2>1 DEF IsSent
    <3>2. DecodeMacFrame(bytes).payload = SubSeq(bytes, 6, 5 + n)
      BY <1>1, <1>2, <2>1, <3>1 DEF DecodeMacFrame
    <3> HIDE DEF bytes, n
    <3>3. /\ SubSeq(bytes, 6, 5 + n) \in Seq(Uint8) /\ Len(SubSeq(bytes, 6, 5 + n)) = n
          /\ \A k \in 1..n : SubSeq(bytes, 6, 5 + n)[k] = bytes[5 + k]
      BY <1>1, <1>4, SubSeqFacts
    <3> QED
      BY <1>1, <1>3, <3>2, <3>3, SeqEqual DEF n
  <2>2. CASE ~(frame.type = FrameType.Data /\ frame.arg > 0)
    <3>1. n = 0
      BY <1>1, <2>2 DEF IsSent, Least
    <3>2. DecodeMacFrame(bytes).payload = <<>>
      BY <1>2, <2>2 DEF DecodeMacFrame
    <3> QED
      BY <1>1, <3>1, <3>2, EmptySeq
  <2> QED
    BY <2>1, <2>2
<1>6. DecodeMacFrame(bytes)
        = [type |-> bytes[1], seq |-> bytes[2], ack |-> bytes[3], pending |-> bytes[4],
           arg |-> bytes[5], payload |-> DecodeMacFrame(bytes).payload]
  BY DEF DecodeMacFrame
<1>7. frame = [type |-> frame.type, seq |-> frame.seq, ack |-> frame.ack,
               pending |-> frame.pending, arg |-> frame.arg, payload |-> frame.payload]
  BY DEF MacFrame
<1> HIDE DEF bytes
<1>8. DecodeMacFrame(bytes) = frame
  BY <1>2, <1>5, <1>6, <1>7
<1> QED
  BY <1>8 DEF bytes

-----------------------------------------------------------------------------
(* The path.                                                               *)

(* What a length saturated at 255 still says of the length. *)
LEMMA Saturation ==
  ASSUME NEW l \in Nat, NEW m \in Nat, m < 255
  PROVE  /\ Least(l, 255) \in 0..255
         /\ Least(Least(l, 255), m) = Least(l, m)
         /\ Least(l, 255) <= m <=> l <= m
BY DEF Least

(* The frame for what is left of a packet.                                 *)
LEMMA FragmentFacts ==
  ASSUME NEW bytes \in Seq(Uint8), bytes # <<>>
  PROVE  /\ DataFrame(bytes) \in MacFrame
         /\ DecodeMacFrame(EncodeMacFrame(DataFrame(bytes))) = DataFrame(bytes)
         /\ Len(DataFrame(bytes).payload) = Least(Len(bytes), MaxPayload)
         /\ CompletesPacket(DataFrame(bytes)) <=> Len(bytes) <= MaxPayload
<1> DEFINE n == Least(Len(bytes), MaxPayload)
<1>1. /\ Len(bytes) \in Nat /\ Len(bytes) > 0
      /\ n \in Nat /\ n > 0 /\ n <= Len(bytes) /\ n <= MaxPayload
  BY EmptySeq, MaxPayloadType DEF Least
<1>2. /\ SubSeq(bytes, 1, n) \in Seq(Uint8)
      /\ Len(SubSeq(bytes, 1, n)) = n
  <2> HIDE DEF n
  <2> QED
    BY <1>1, SubSeqFacts
<1>3. /\ BytesLeft(bytes) \in Uint8
      /\ Least(BytesLeft(bytes), MaxPayload) = n
      /\ BytesLeft(bytes) <= MaxPayload <=> Len(bytes) <= MaxPayload
  <2>1. BytesLeft(bytes) = Least(Len(bytes), 255)
    BY Uint8Type DEF BytesLeft
  <2>2. /\ Least(Len(bytes), 255) \in 0..255
        /\ Least(Least(Len(bytes), 255), MaxPayload) = Least(Len(bytes), MaxPayload)
        /\ Least(Len(bytes), 255) <= MaxPayload <=> Len(bytes) <= MaxPayload
    BY <1>1, MaxPayloadType, Saturation
  <2>3. BytesLeft(bytes) \in Uint8
    BY <2>1, <2>2, Uint8Type
  <2> QED
    BY <2>1, <2>2, <2>3
<1>4. /\ 0 \in Uint8 /\ 1 \in Uint8 /\ 3 \in Uint8
  BY Uint8Type
<1>5. SubSeq(bytes, 1, n) \in Payload
  BY <1>1, <1>2 DEF Payload
<1>6. /\ DataFrame(bytes) \in MacFrame
      /\ DataFrame(bytes).payload = SubSeq(bytes, 1, n)
      /\ DataFrame(bytes).arg = BytesLeft(bytes)
      /\ DataFrame(bytes).type = FrameType.Data
  BY <1>3, <1>4, <1>5 DEF DataFrame, MacFrame, FrameType
<1> HIDE DEF n
<1>7. IsSent(DataFrame(bytes))
  BY <1>2, <1>3, <1>6 DEF IsSent
<1>8. SubSeq(bytes, 1, n) # <<>>
  BY <1>1, <1>2, EmptySeq
<1> QED
  BY <1>2, <1>3, <1>6, <1>7, <1>8, CodecRoundTrip DEF CompletesPacket, n

(* Offsets at which a fragment can begin. *)
IsMultiple(a) == \E m \in Nat : a = m * MaxPayload

LEMMA MultipleFacts ==
  /\ IsMultiple(0)
  /\ \A a \in Nat : IsMultiple(a) => IsMultiple(a + MaxPayload)
<1>1. IsMultiple(0)
  BY MaxPayloadType, 0 = 0 * MaxPayload DEF IsMultiple
<1>2. ASSUME NEW a \in Nat, IsMultiple(a) PROVE IsMultiple(a + MaxPayload)
  <2>1. PICK m \in Nat : a = m * MaxPayload
    BY <1>2 DEF IsMultiple
  <2>2. a + MaxPayload = (m + 1) * MaxPayload
    BY <2>1, MaxPayloadType
  <2> QED
    BY <2>2 DEF IsMultiple
<1> QED
  BY <1>1, <1>2

(* The end of the end of a sequence is its end. *)
LEMMA EndOfEnd ==
  ASSUME NEW S, NEW s \in Seq(S), NEW b \in Nat, NEW n \in Nat, b + n <= Len(s)
  PROVE  LET end == SubSeq(s, b + 1, Len(s))
         IN  /\ SubSeq(end, n + 1, Len(end)) = SubSeq(s, b + n + 1, Len(s))
             /\ SubSeq(end, 1, n) = SubSeq(s, b + 1, b + n)
<1> DEFINE end == SubSeq(s, b + 1, Len(s))
<1>1. /\ Len(s) \in Nat
      /\ end \in Seq(S) /\ Len(end) = Len(s) - b
      /\ \A k \in 1..(Len(s) - b) : end[k] = s[b + k]
  BY SubSeqFacts, LenProperties
<1>2. /\ SubSeq(s, b + n + 1, Len(s)) \in Seq(S)
      /\ Len(SubSeq(s, b + n + 1, Len(s))) = Len(s) - b - n
      /\ \A k \in 1..(Len(s) - b - n) : SubSeq(s, b + n + 1, Len(s))[k] = s[b + n + k]
  BY <1>1, SubSeqFacts
<1>3. /\ SubSeq(s, b + 1, b + n) \in Seq(S)
      /\ Len(SubSeq(s, b + 1, b + n)) = n
      /\ \A k \in 1..n : SubSeq(s, b + 1, b + n)[k] = s[b + k]
  BY <1>1, SubSeqFacts
<1> HIDE DEF end
<1>4. /\ SubSeq(end, n + 1, Len(end)) \in Seq(S)
      /\ Len(SubSeq(end, n + 1, Len(end))) = Len(s) - b - n
      /\ \A k \in 1..(Len(s) - b - n) : SubSeq(end, n + 1, Len(end))[k] = end[n + k]
  <2>1. PICK m \in Nat : m = Len(end) /\ m = Len(s) - b /\ n <= m
    BY <1>1
  <2>2. /\ SubSeq(end, n + 1, m) \in Seq(S)
        /\ Len(SubSeq(end, n + 1, m)) = m - n
        /\ \A k \in 1..(m - n) : SubSeq(end, n + 1, m)[k] = end[n + k]
    BY <1>1, <2>1, SubSeqFacts
  <2>3. m - n = Len(s) - b - n
    BY <1>1, <2>1
  <2> QED
    BY <2>1, <2>2, <2>3
<1>5. /\ SubSeq(end, 1, n) \in Seq(S) /\ Len(SubSeq(end, 1, n)) = n
      /\ \A k \in 1..n : SubSeq(end, 1, n)[k] = end[k]
  BY <1>1, SubSeqFacts
<1>6. SubSeq(end, n + 1, Len(end)) = SubSeq(s, b + n + 1, Len(s))
  <2>1. \A k \in 1..(Len(s) - b - n) : end[n + k] = s[b + n + k]
    BY <1>1
  <2> QED
    BY <1>1, <1>2, <1>4, <2>1, SeqEqual
<1>7. SubSeq(end, 1, n) = SubSeq(s, b + 1, b + n)
  <2>1. \A k \in 1..n : end[k] = s[b + k]
    BY <1>1
  <2> QED
    BY <1>1, <1>3, <1>5, <2>1, SeqEqual
<1> QED
  BY <1>6, <1>7 DEF end

LEMMA WholeSequence ==
  ASSUME NEW S, NEW s \in Seq(S)
  PROVE  SubSeq(s, 1, Len(s)) = s /\ \A b \in 0..Len(s) : SubSeq(s, b + 1, b) = <<>>
<1>1. Len(s) \in Nat
  BY LenProperties
<1>2. SubSeq(s, 1, Len(s)) = s
  <2>1. /\ SubSeq(s, 1, Len(s)) \in Seq(S) /\ Len(SubSeq(s, 1, Len(s))) = Len(s)
        /\ \A k \in 1..Len(s) : SubSeq(s, 1, Len(s))[k] = s[k]
    BY <1>1, SubSeqFacts
  <2> QED
    BY <2>1, SeqEqual
<1>3. ASSUME NEW b \in 0..Len(s) PROVE SubSeq(s, b + 1, b) = <<>>
  <2>1. SubSeq(s, b + 1, b) \in Seq(S) /\ Len(SubSeq(s, b + 1, b)) = 0
    BY <1>1, SubSeqFacts
  <2> QED
    BY <2>1, EmptySeq
<1> QED
  BY <1>2, <1>3

(* From offset b the packet is still to be sent, and since the last reset  *)
(* it was sent from offset a.                                              *)
Progress(a, b) ==
  /\ a <= b /\ b < Len(packet)
  /\ IsMultiple(a) /\ IsMultiple(b)
  /\ current = SubSeq(packet, b + 1, Len(packet))
  /\ frame_buffer_ = SubSeq(packet, a + 1, b)
  /\ cut \/ a = 0

IInv ==
  /\ TypeOK
  /\ packet # <<>> => IsValidIpPacket(packet)
  /\ current = <<>> => air = <<>> /\ frame_buffer_ = <<>>
  /\ air # <<>> => air = EncodeMacFrame(DataFrame(current))
  /\ current # <<>> => /\ packet # <<>> /\ written = <<>>
                       /\ \E a, b \in Nat : Progress(a, b)
  /\ UncutIsWritten

LEMMA BytesReadType == \A p \in TunPackets : BytesRead(p) \in Seq(Uint8)
<1> SUFFICES ASSUME NEW p \in TunPackets PROVE BytesRead(p) \in Seq(Uint8)
  OBVIOUS
<1>1. p \in Seq(Uint8) /\ Len(p) \in Nat /\ BufferSize \in Nat
  BY WireAssumption, LenProperties
<1>2. Least(Len(p), BufferSize) \in Nat /\ Least(Len(p), BufferSize) <= Len(p)
  BY <1>1 DEF Least
<1> QED
  BY <1>1, <1>2, SubSeqFacts DEF BytesRead

LEMMA PathInit == Init => IInv /\ WritesPacketOrItsRest
BY EmptySeq DEF Init, IInv, TypeOK, UncutIsWritten, WritesPacketOrItsRest

LEMMA TunnelThreadStep ==
  ASSUME IInv, TunnelThread
  PROVE  IInv' /\ WritesPacketOrItsRest'
<1>1. PICK p \in TunPackets : /\ IsValidIpPacket(BytesRead(p))
                              /\ packet' = BytesRead(p) /\ current' = BytesRead(p)
  BY DEF TunnelThread
<1>2. packet' \in Seq(Uint8) /\ packet' # <<>> /\ Len(packet') \in Nat /\ Len(packet') > 0
  BY <1>1, BytesReadType, EmptySeq DEF IsValidIpPacket
<1>3. cut' \in BOOLEAN
  BY Zenon DEF TunnelThread
<1>4. Progress(0, 0)'
  <2>1. frame_buffer_' = <<>> /\ air' = <<>>
    BY DEF TunnelThread, IInv
  <2> QED
    BY <1>1, <1>2, <2>1, WholeSequence, MultipleFacts DEF Progress
<1> QED
  BY <1>1, <1>2, <1>3, <1>4, EmptySeq
     DEF TunnelThread, IInv, TypeOK, UncutIsWritten, WritesPacketOrItsRest

LEMMA SendFragmentStep ==
  ASSUME IInv, WritesPacketOrItsRest, SendFragment
  PROVE  IInv' /\ WritesPacketOrItsRest'
<1>1. air' \in Seq(Uint8)
  BY EncodedType, FragmentFacts DEF SendFragment, IInv, TypeOK
<1>2. \A a, b \in Nat : Progress(a, b) => Progress(a, b)'
  BY DEF SendFragment, Progress
<1> QED
  BY <1>1, <1>2 DEF SendFragment, IInv, TypeOK, UncutIsWritten, WritesPacketOrItsRest

LEMMA ReceiveFragmentStep ==
  ASSUME IInv, ReceiveFragment
  PROVE  IInv' /\ (WritesPacketOrItsRest => WritesPacketOrItsRest')
<1> DEFINE payload == DataFrame(current).payload
<1> DEFINE bytes == frame_buffer_ \o payload
<1> DEFINE n == Least(Len(current), MaxPayload)
<1>1. /\ current # <<>> /\ current \in Seq(Uint8)
      /\ packet # <<>> /\ packet \in Seq(Uint8) /\ Len(packet) \in Nat
      /\ frame_buffer_ \in Seq(Uint8)
      /\ written = <<>>
      /\ DecodeMacFrame(air) = DataFrame(current)
  BY FragmentFacts, LenProperties DEF ReceiveFragment, IInv, TypeOK
<1>2. PICK a \in Nat, b \in Nat : Progress(a, b)
  BY <1>1 DEF IInv
<1>3. /\ Len(current) = Len(packet) - b /\ Len(current) > 0
      /\ n \in Nat /\ n > 0 /\ n <= Len(current)
      /\ n = MaxPayload \/ n = Len(current)
      /\ n < Len(current) <=> Len(current) > MaxPayload
  <2>1. Len(current) = Len(packet) - b
    BY <1>1, <1>2, SubSeqFacts DEF Progress
  <2> QED
    BY <1>1, <1>2, <2>1, MaxPayloadType DEF Progress, Least
<1>4. /\ payload = SubSeq(packet, b + 1, b + n)
      /\ Len(payload) = n
      /\ SubSeq(current, n + 1, Len(current)) = SubSeq(packet, b + n + 1, Len(packet))
  <2>1. payload = SubSeq(current, 1, n)
    BY DEF DataFrame
  <2>2. Len(payload) = n
    BY <1>1, FragmentFacts
  <2> HIDE DEF n
  <2>3. n \in Nat /\ b + n <= Len(packet)
    BY <1>1, <1>2, <1>3
  <2>4. /\ SubSeq(current, n + 1, Len(current)) = SubSeq(packet, b + n + 1, Len(packet))
        /\ SubSeq(current, 1, n) = SubSeq(packet, b + 1, b + n)
    BY <1>1, <1>2, <2>3, EndOfEnd DEF Progress
  <2> QED
    BY <2>1, <2>2, <2>4
<1>5. bytes = SubSeq(packet, a + 1, b + n)
  <2> HIDE DEF n, payload
  <2>1. PICK c \in Nat : c = b + n
    BY <1>3
  <2>2. a <= b /\ b <= c /\ c <= Len(packet)
    BY <1>1, <1>2, <1>3, <2>1 DEF Progress
  <2>3. SubSeq(packet, a + 1, b) \o SubSeq(packet, b + 1, c) = SubSeq(packet, a + 1, c)
    BY <1>1, <2>2, PartsMeet
  <2> QED
    BY <1>2, <1>4, <2>1, <2>3 DEF Progress
<1> HIDE DEF n, payload, bytes
<1>6. /\ bytes \in Seq(Uint8)
      /\ SubSeq(current, n + 1, Len(current)) \in Seq(Uint8)
      /\ Len(SubSeq(current, n + 1, Len(current))) = Len(current) - n
  BY <1>1, <1>2, <1>3, <1>5, SubSeqFacts DEF Progress
<1>7. /\ current' = SubSeq(current, n + 1, Len(current))
      /\ air' = <<>> /\ packet' = packet /\ cut' = cut
  <2>1. Least(Len(current), Len(payload)) = n
    <3>1. Len(current) \in Nat
      BY <1>1, LenProperties
    <3> QED
      BY <1>3, <1>4, <3>1 DEF Least
  <2> QED
    BY <2>1 DEF ReceiveFragment, payload
<1>8. CASE Len(current) > MaxPayload
  <2>1. /\ n = MaxPayload /\ n < Len(current)
        /\ current' # <<>>
    <3>1. Len(current) \in Nat /\ MaxPayload \in Nat
      BY <1>1, LenProperties, MaxPayloadType
    <3>2. n = MaxPayload /\ n < Len(current)
      BY <1>3, <1>8, <3>1
    <3>3. Len(current') > 0
      BY <1>6, <1>7, <3>1, <3>2
    <3> QED
      BY <3>2, <3>3, EmptySeq
  <2>2. frame_buffer_' = bytes /\ written' = written
    BY <1>1, <1>8, FragmentFacts, LenProperties, MaxPayloadType
       DEF ReceiveFragment, bytes, payload
  <2>3. Progress(a, b + MaxPayload)'
    <3>1. /\ a <= b + n /\ b + n < Len(packet)
          /\ IsMultiple(a) /\ IsMultiple(b + MaxPayload)
      <4>1. /\ a <= b /\ MaxPayload \in Nat
            /\ IsMultiple(a) /\ IsMultiple(b)
        BY <1>2, MaxPayloadType DEF Progress
      <4>2. a <= b + n /\ b + n < Len(packet)
        BY <1>1, <1>3, <2>1, <4>1
      <4> QED
        BY <4>1, <4>2, MultipleFacts
    <3>2. cut' \/ a = 0
      BY <1>2, <1>7 DEF Progress
    <3> QED
      BY <1>4, <1>5, <1>7, <2>1, <2>2, <3>1, <3>2 DEF Progress
  <2>4. b + MaxPayload \in Nat
    BY MaxPayloadType
  <2> QED
    BY <1>1, <1>6, <1>7, <2>1, <2>2, <2>3, <2>4, EmptySeq
       DEF IInv, TypeOK, UncutIsWritten, WritesPacketOrItsRest
<1>9. CASE ~(Len(current) > MaxPayload)
  <2>1. n = Len(current) /\ current' = <<>> /\ b + n = Len(packet)
    BY <1>2, <1>3, <1>6, <1>7, <1>9, EmptySeq
  <2>2. /\ frame_buffer_' = <<>>
        /\ written' = IF IsValidIpPacket(bytes) THEN <<bytes>> ELSE <<>>
    BY <1>1, <1>9, FragmentFacts, LenProperties, MaxPayloadType
       DEF ReceiveFragment, bytes, payload
  <2>3. a = 0 => bytes = packet
    BY <1>1, <1>5, <2>1, WholeSequence
  <2>4. IsValidIpPacket(packet)
    BY <1>1 DEF IInv
  <2>5. a = 0 => written' = <<packet>>
    BY <2>2, <2>3, <2>4
  <2>6. WritesPacketOrItsRest'
    <3>1. PICK m \in Nat : a = m * MaxPayload
      BY <1>2 DEF Progress, IsMultiple
    <3>2. m <= m * MaxPayload
      BY MaxPayloadType
    <3>3. m \in 0..Len(packet)
      BY <1>1, <1>2, <3>1, <3>2 DEF Progress
    <3>4. bytes = SubSeq(packet, m * MaxPayload + 1, Len(packet))
      BY <1>5, <2>1, <3>1
    <3>5. m = 0 \/ cut'
      BY <1>2, <1>7, <3>1, MaxPayloadType DEF Progress
    <3> QED
      BY <1>7, <2>2, <3>3, <3>4, <3>5 DEF WritesPacketOrItsRest, IsValidIpPacket
  <2>7. written' \in Seq(Seq(Uint8))
    BY <1>6, <2>2
  <2>8. UncutIsWritten'
    BY <1>2, <1>7, <2>5 DEF UncutIsWritten, Progress
  <2>9. IInv'
    BY <1>1, <1>7, <2>1, <2>2, <2>7, <2>8, EmptySeq DEF IInv, TypeOK
  <2> QED
    BY <2>6, <2>9
<1> QED
  BY <1>8, <1>9

LEMMA ResetStep ==
  ASSUME IInv, ResetBothEnds
  PROVE  IInv' /\ (WritesPacketOrItsRest => WritesPacketOrItsRest')
<1>1. /\ current # <<>> /\ packet # <<>> /\ packet \in Seq(Uint8)
      /\ Len(packet) \in Nat /\ Len(packet) > 0
  BY EmptySeq DEF ResetBothEnds, IInv, TypeOK
<1>2. PICK a \in Nat, b \in Nat : Progress(a, b)
  BY <1>1 DEF IInv
<1>3. cut' \in BOOLEAN /\ (cut' \/ current = packet)
  BY Zenon DEF ResetBothEnds
<1>4. \E c, d \in Nat : Progress(c, d)'
  <2>1. CASE cut'
    <3>1. SubSeq(packet, b + 1, b) = <<>>
      BY <1>1, <1>2, WholeSequence DEF Progress
    <3>2. Progress(b, b)'
      BY <1>2, <2>1, <3>1 DEF ResetBothEnds, Progress
    <3> QED
      BY <3>2
  <2>2. CASE current = packet
    <3>1. SubSeq(packet, 1, 0) = <<>> /\ SubSeq(packet, 1, Len(packet)) = packet
      BY <1>1, WholeSequence
    <3>2. Progress(0, 0)'
      BY <1>1, <2>2, <3>1, MultipleFacts DEF ResetBothEnds, Progress
    <3> QED
      BY <3>2
  <2> QED
    BY <1>3, <2>1, <2>2
<1> QED
  BY <1>1, <1>3, <1>4, EmptySeq
     DEF ResetBothEnds, IInv, TypeOK, UncutIsWritten, WritesPacketOrItsRest

LEMMA StutterStep ==
  ASSUME UNCHANGED vars
  PROVE  IInv <=> IInv'
<1>1. \A a, b \in Nat : Progress(a, b) <=> Progress(a, b)'
  BY DEF vars, Progress
<1> QED
  BY <1>1 DEF vars, IInv, TypeOK, UncutIsWritten

LEMMA IInvStep == IInv /\ [Next]_vars => IInv'
<1> SUFFICES ASSUME IInv, [Next]_vars PROVE IInv'
  OBVIOUS
<1>1. CASE SendFragment
  <2>1. \A a, b \in Nat : Progress(a, b) => Progress(a, b)'
    BY <1>1 DEF SendFragment, Progress
  <2>2. air' \in Seq(Uint8)
    BY <1>1, EncodedType, FragmentFacts DEF SendFragment, IInv, TypeOK
  <2> QED
    BY <1>1, <2>1, <2>2 DEF SendFragment, IInv, TypeOK, UncutIsWritten
<1> QED
  BY <1>1, TunnelThreadStep, ReceiveFragmentStep, ResetStep, StutterStep DEF Next

(* Whatever its length, a packet that the TUN device yields and            *)
(* IsValidIpPacket accepts comes out at the other end as it went in,       *)
(* unless a reset cuts it.                                                 *)
THEOREM PacketsComeOutWhole == Spec => []UncutIsWritten
<1>1. Init => IInv
  BY PathInit
<1>2. IInv => UncutIsWritten
  BY DEF IInv
<1> QED
  BY <1>1, <1>2, IInvStep, PTL DEF Spec

(* What comes out is the packet that went in, or else a rest of it that a  *)
(* reset left, from the beginning of a fragment on, and that has the form  *)
(* of a packet: nothing is written twice, mixed, or cut at its end.        *)
THEOREM NothingElseComesOut == Spec => []WritesPacketOrItsRest
<1>1. Init => IInv /\ WritesPacketOrItsRest
  BY PathInit
<1>2. IInv /\ WritesPacketOrItsRest /\ [Next]_vars => IInv' /\ WritesPacketOrItsRest'
  <2> SUFFICES ASSUME IInv, WritesPacketOrItsRest, [Next]_vars
               PROVE  WritesPacketOrItsRest'
    BY IInvStep
  <2>1. CASE UNCHANGED vars
    BY <2>1 DEF vars, WritesPacketOrItsRest
  <2> QED
    BY <2>1, TunnelThreadStep, SendFragmentStep, ReceiveFragmentStep, ResetStep DEF Next
<1> QED
  BY <1>1, <1>2, PTL DEF Spec

(* A frame in flight is decoded to the frame that was built. *)
THEOREM FramesSurvive == Spec => []FrameSurvivesCodec
<1>1. Init => IInv
  BY PathInit
<1>2. IInv => FrameSurvivesCodec
  <2> SUFFICES ASSUME IInv, air # <<>> PROVE DecodeMacFrame(air) = DataFrame(current)
    BY DEF FrameSurvivesCodec
  <2> QED
    BY FragmentFacts DEF IInv, TypeOK
<1> QED
  BY <1>1, <1>2, IInvStep, PTL DEF Spec
=============================================================================
