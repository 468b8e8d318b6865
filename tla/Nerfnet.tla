------------------------------- MODULE Nerfnet -------------------------------
(***************************************************************************)
(* The link: one Coordinator and one Peer, each with the thread that runs  *)
(* its protocol and the thread that reads its TUN device, and the radio    *)
(* between them. The steps of the four threads interleave; a frame can be  *)
(* lost, its hardware acknowledgement can be lost, and a reply can come    *)
(* after the Coordinator stopped waiting for it.                           *)
(***************************************************************************)
EXTENDS PrimaryRadioInterface, SecondaryRadioInterface

CONSTANT Restarts   (* the nodes whose process may end and start again *)

ASSUME RestartsAssumption == Restarts \subseteq Nodes

vars == <<radioVars, primaryVars, secondaryVars>>

(* The Peer still has a frame to read or to answer, or is not listening. *)
PeerIsBusy == s_pc # "wait" \/ rx_fifo[Peer] # <<>>

(* A RESET is unread at the Peer, or taken and not answered. *)
PeerOwesReset ==
  s_pc = "reset" \/ \E i \in DOMAIN rx_fifo[Peer] : rx_fifo[Peer][i].type = "Reset"

Init == RadioInit /\ PrimaryInit /\ SecondaryInit

PrimaryNext ==
  /\ \/ AwaitRetry
     \/ StartReset(PeerIsBusy, PeerOwesReset)
     \/ SendReset
     \/ ReceiveResetReply
     \/ StartExchange(PeerIsBusy)
     \/ SendRequest
     \/ ReceiveReply
     \/ ReceiveTimesOut(PeerIsBusy)
     \/ "primary" \in Restarts /\ RestartPrimary(PeerOwesReset)
  /\ UNCHANGED secondaryVars

SecondaryNext ==
  /\ \/ StartReceive
     \/ ReceiveReset
     \/ ReceiveRequest
     \/ SendResetReply
     \/ SendReply
     \/ "secondary" \in Restarts /\ RestartSecondary
  /\ UNCHANGED primaryVars

TunnelNext ==
  /\ \E n \in Nodes : TunnelThread(n)
  /\ UNCHANGED <<primaryVars, secondaryVars>>

Next == PrimaryNext \/ SecondaryNext \/ TunnelNext

Spec == Init /\ [][Next]_vars

(* Each thread keeps running, and a frame that is sent again and again gets *)
(* through, acknowledgement included: one condition per type of frame, for  *)
(* the radio does not prefer one type to another.                           *)
Arrives(n) == Len(rx_fifo'[n]) > Len(rx_fifo[n])

Fairness ==
  /\ WF_vars(PrimaryNext)
  /\ WF_vars(SecondaryNext)
  /\ SF_vars(PrimaryNext /\ p_pc = "reset" /\ p_pc' = "reset_wait" /\ Arrives(Peer))
  /\ SF_vars(SecondaryNext /\ s_pc = "reset" /\ Arrives(Self))
  /\ \A type \in {"Pending", "Grant", "Data"} :
        SF_vars(PrimaryNext /\ p_pc = "exchange" /\ p_pc' = "wait"
                  /\ tx_type' = type /\ Arrives(Peer))
  /\ \A type \in {"Pending", "Ack", "Data"} :
        SF_vars(SecondaryNext /\ s_pc = "reply"
                  /\ ChoosePeerResponse.type = type /\ Arrives(Self))

FairSpec == Spec /\ Fairness

(* Only the Coordinator's thread is sure to run: the Peer may stop for good *)
(* at any point, and the radio may lose everything.                        *)
PrimaryFairSpec == Spec /\ WF_vars(PrimaryNext)

-----------------------------------------------------------------------------
(* Every variable has its type: the members of the two classes keep to the *)
(* ranges their declarations give them.                                    *)
TypeOK == RadioTypeOK /\ PrimaryTypeOK /\ SecondaryTypeOK

-----------------------------------------------------------------------------
(* What the link promises of the packets. PacketNumber is of a queued,     *)
(* possibly shortened, or a written packet.                                *)

PacketNumber(bytes) == bytes[1].pkt

Queued(n) == {PacketNumber(mac[n].read_buffer_[i]) : i \in DOMAIN mac[n].read_buffer_}

(* What WriteTunnel writes is one whole packet of the other end, never     *)
(* bytes of two packets, or a packet with a fragment missing or repeated.  *)
WritesWholePackets ==
  \A n \in Nodes : \A i \in DOMAIN session_out[n] :
    LET bytes == session_out[n][i]
    IN  bytes = Packet(Other(n), PacketNumber(bytes))

(* Between two resets each packet is written once, and in the order of the *)
(* other end's queue, in spite of lost frames, lost ACKs, retransmissions  *)
(* and replies that come late.                                             *)
SessionExactlyOnce ==
  \A n \in Nodes : \A i \in 1..(Len(session_out[n]) - 1) :
    PacketNumber(session_out[n][i + 1]) = PacketNumber(session_out[n][i]) + 1

(* A packet that TunnelThread has read is still queued, or was written at  *)
(* the other end, or a reset or a restart cut it, or its write failed:     *)
(* CommitAckLocked never removes bytes that the other end has not consumed. *)
NoSilentLoss ==
  \A n \in Nodes : \A k \in 1..tun_read[n] :
    k \in Queued(n) \cup delivered[Other(n)] \cup cut[n]

(* ConsumeDataFrameLocked leaves out the payload of a DATA frame with the  *)
(* last sequence number: it is the frame consumed last, sent again.        *)
RetransmissionOnly ==
  \A n \in Nodes :
    LET f == Head(rx_fifo[n])
    IN  rx_fifo[n] # <<>> /\ f.type = "Data" /\ IsDuplicate(mac[n], f)
        => f.payload = consumed[n]

(* An ACK is true: while a session is open, when a frame on its way to n   *)
(* acknowledges the fragment that n has in flight, that fragment is what   *)
(* the other end consumed last. Late frames with the ACKs of earlier       *)
(* sequence numbers do not change this, though the numbers wrap, nor do    *)
(* late replies to the RESETs of the handshake.                            *)
AckMeansConsumed ==
  ~InHandshake => \A n \in Nodes : \A i \in DOMAIN rx_fifo[n] :
    mac[n].tx_in_flight_ /\ rx_fifo[n][i].ack = mac[n].tx_inflight_seq_
      => mac[n].tx_inflight_payload_ = consumed[Other(n)]

(* The protocol implements the service of PacketLink. *)
Link == INSTANCE PacketLink WITH
  Available <- [n \in Nodes |-> Len(Traffic[n])],
  read <- tun_read,
  written <- [n \in Nodes |-> [i \in DOMAIN session_out[n] |->
                                PacketNumber(session_out[n][i])]],
  lost <- cut

(* Every step of the threads and the radio is, for the IP stacks, a step   *)
(* of PacketLink or none: no packet overtakes an earlier one, none is      *)
(* written twice in a session, and only a reset repeats or cuts one.       *)
ImplementsPacketLink == Link!Spec

(* When the Coordinator takes the handshake for done, on whichever of its  *)
(* RESETs the reply was, the Peer too is at the start of a session, has no *)
(* frame of an earlier one to answer, and none of its replies is on its    *)
(* way: though the Coordinator repeats its RESET without waiting for the   *)
(* Peer, which may first have to answer old frames and older RESETs. RESETs *)
(* that are still unread there find nothing more to clear.                 *)
HandshakeSynchronises ==
  [][connection_reset_required_ /\ ~connection_reset_required_'
       => /\ [mac[Peer] EXCEPT !.read_buffer_ = <<>>] = NewMac
          /\ s_pc # "reply"
          /\ \A i \in DOMAIN rx_fifo[Peer] : rx_fifo[Peer][i].type = "Reset"
          /\ rx_fifo'[Self] = <<>>]_vars

-----------------------------------------------------------------------------
(* What keeps the two threads of a node, and its members, consistent.      *)

(* The fragment in flight is the beginning of the queue's head, numbered   *)
(* with the next sequence number; with none in flight the tx_inflight_     *)
(* members are clear. TunnelThread pushes in between.                      *)
FragmentIsHead(m) ==
  IF m.tx_in_flight_
  THEN LET current == Head(m.read_buffer_)
       IN  /\ m.read_buffer_ # <<>>
           /\ m.tx_inflight_seq_ = m.next_tx_seq_
           /\ m.tx_inflight_bytes_left_ = Least(Len(current), Uint8Max)
           /\ m.tx_inflight_payload_ = SubSeq(current, 1, Least(Len(current), MaxPayload))
  ELSE /\ m.tx_inflight_seq_ = NoSeq
       /\ m.tx_inflight_bytes_left_ = 0
       /\ m.tx_inflight_payload_ = <<>>

InFlightIsHead == \A n \in Nodes : FragmentIsHead(mac[n])

(* local_has_data is read under the mutex and used after it was unlocked   *)
(* and locked again: what it said still holds, so BuildNextDataFrameLocked *)
(* finds a packet.                                                         *)
LocalDataStaysTrue ==
  /\ p_pc = "exchange" /\ p_local_has_data => LocalHasData(mac[Self])
  /\ s_pc = "reply" /\ s_local_has_data => LocalHasData(mac[Peer])

(* TunnelThread's throttle bounds the queue. *)
QueueIsBounded ==
  \A n \in Nodes : Len(mac[n].read_buffer_) <= MaxBufferedFrames + 1

(* The state ResetSync and connection_reset_required_ go together, so an   *)
(* exchange never sends RESET: the Peer clears its session only when the   *)
(* Coordinator has cleared its own.                                        *)
ExchangeNeverResets ==
  /\ state_ = "ResetSync" <=> connection_reset_required_
  /\ p_pc \in {"exchange", "wait"} => ~connection_reset_required_ /\ ~disconnected_

(* While the link counts as connected no streak has reached its threshold, *)
(* and the backoff is the initial one.                                     *)
ConnectedBelowThresholds ==
  ~disconnected_ =>
    /\ send_fail_streak_ < FailureThreshold
    /\ timeout_fail_streak_ < FailureThreshold + 2
    /\ send_fail_streak_ + timeout_fail_streak_ < FailureThreshold + 3
    /\ disconnect_backoff_us_ = InitialBackoff

(* The Coordinator is Idle only when the Peer's last word was that nothing *)
(* is pending: one reply with pending set makes the next request a GRANT.  *)
IdleMeansNothingPending == state_ = "Idle" => ~peer_has_pending_

(* The Peer sends DATA only in answer to a GRANT, and one frame for each,  *)
(* though a GRANT gives credit for BurstGrant of them: what is left is     *)
(* neither spent on a later request, of whatever type and however late it  *)
(* is read, nor added to what the next GRANT gives, nor kept by a reset.   *)
OneDataPerGrant ==
  s_pc = "reply" /\ ChoosePeerResponse.type = "Data" =>
    answering = "Grant" /\ grant_budget_ = BurstGrant

(* A failed retry never shortens the wait for the next one, and no wait is *)
(* longer than the backoff.                                                *)
BackoffGrows ==
  [][disconnected_ /\ disconnected_' =>
       /\ disconnect_backoff_us_' >= disconnect_backoff_us_
       /\ retry_in_' > retry_in_ => retry_in_' = disconnect_backoff_us_]_vars

-----------------------------------------------------------------------------
(* Liveness.                                                               *)

(* With a Peer that answers in time, a packet that was read from a TUN     *)
(* device is written to the other one, unless a reset cut it.              *)
EventuallyDelivered ==
  \A n \in Nodes : \A k \in 1..Len(Traffic[n]) :
    (tun_read[n] >= k) ~> (k \in delivered[Other(n)] \cup cut[n])

(* When the Peer's program hangs for good, the Coordinator comes to count  *)
(* it as disconnected, and does so from then on. If it hangs while its     *)
(* radio listens, the chip goes on acknowledging until its FIFO is full:   *)
(* timeouts first and then failures to send, and each kind clears the      *)
(* streak of the other. The second condition leaves out a chip that for    *)
(* ever acknowledges frames now and then and discards them as repetitions. *)
HungPeerIsNoticed ==
  /\ <>[][s_pc' = s_pc /\ Len(rx_fifo'[Peer]) >= Len(rx_fifo[Peer])]_vars
  /\ <>[][p_pc' # p_pc /\ p_pc' \in {"wait", "reset_wait"} => Arrives(Peer)]_vars
  => <>[]disconnected_

(* A link that was given up is taken up again. *)
Reconnects == disconnected_ ~> ~disconnected_
=============================================================================
