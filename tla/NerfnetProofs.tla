---------------------------- MODULE NerfnetProofs ----------------------------
(***************************************************************************)
(* The invariants of the link that hold for every value of the constants:  *)
(* those of the Coordinator's state machine, of the frames on their way,   *)
(* and of the fragment in flight.                                          *)
(***************************************************************************)
EXTENDS NerfnetTypeProofs

-----------------------------------------------------------------------------
(* The Coordinator's state machine. ExchangeNeverResets and                *)
(* ConnectedBelowThresholds are inductive together with the types.         *)

ControlInv == ExchangeNeverResets /\ ConnectedBelowThresholds

(* A failed transaction leaves no exchange running, and keeps the two.     *)
LEMMA HandleTransactionFailureControl ==
  ASSUME TypeOK, ControlInv, NEW failure,
         HandleTransactionFailure(failure, state_), p_pc' \in {"run", "retry"}
  PROVE  ControlInv'
<1>1. SendStreakAfter(failure) \in Nat /\ TimeoutStreakAfter(failure) \in Nat
  BY DEF SendStreakAfter, TimeoutStreakAfter, TypeOK, PrimaryTypeOK
<1>2. CASE DisconnectNow(SendStreakAfter(failure), TimeoutStreakAfter(failure))
  BY <1>2 DEF HandleTransactionFailure, GiveUp, ControlInv, ExchangeNeverResets,
              ConnectedBelowThresholds
<1>3. CASE ~DisconnectNow(SendStreakAfter(failure), TimeoutStreakAfter(failure))
  <2>1. ExchangeNeverResets'
    BY <1>3 DEF HandleTransactionFailure, ControlInv, ExchangeNeverResets
  <2>2. ConnectedBelowThresholds'
    BY <1>1, <1>3, ConstantTypes
    DEF HandleTransactionFailure, DisconnectNow, ControlInv, ConnectedBelowThresholds
  <2> QED
    BY <2>1, <2>2 DEF ControlInv
<1> QED
  BY <1>2, <1>3

LEMMA HandleSuccessControl ==
  ASSUME HandleSuccess, p_pc' = "run", state_' # "ResetSync", ~connection_reset_required_'
  PROVE  ControlInv'
<1>1. ExchangeNeverResets'
  BY DEF ExchangeNeverResets
<1>2. ConnectedBelowThresholds'
  BY ConstantTypes DEF HandleSuccess, ConnectedBelowThresholds
<1> QED
  BY <1>1, <1>2 DEF ControlInv

LEMMA ResetFailedControl ==
  ASSUME TypeOK, ControlInv, ResetFailed
  PROVE  ControlInv'
<1>1. CASE disconnected_
  BY <1>1 DEF ResetFailed, ControlInv, ExchangeNeverResets, ConnectedBelowThresholds
<1>2. CASE ~disconnected_
  BY <1>2, HandleTransactionFailureControl DEF ResetFailed
<1> QED
  BY <1>1, <1>2

LEMMA InitControl == Init => ControlInv
BY ConstantTypes
DEF Init, PrimaryInit, ControlInv, ExchangeNeverResets, ConnectedBelowThresholds

LEMMA PrimaryNextControl ==
  ASSUME TypeOK, ControlInv, PrimaryNext
  PROVE  ControlInv'
<1>1. CASE AwaitRetry
  BY <1>1 DEF AwaitRetry, ControlInv, ExchangeNeverResets, ConnectedBelowThresholds
<1>2. CASE StartReset(PeerIsBusy, PeerOwesReset)
  BY <1>2 DEF StartReset, linkVars, ControlInv, ExchangeNeverResets, ConnectedBelowThresholds
<1>3. CASE SendReset
  <2>1. CASE p_pc' = "reset_wait" /\ UNCHANGED linkVars
    BY <2>1 DEF linkVars, ControlInv, ExchangeNeverResets, ConnectedBelowThresholds
  <2>2. CASE ResetFailed
    BY <2>2, ResetFailedControl
  <2> QED
    BY <1>3, <2>1, <2>2 DEF SendReset
<1>4. CASE ReceiveResetReply
  <2>1. CASE IsResetReply(Head(rx_fifo[Self]))
    BY <1>4, <2>1, HandleSuccessControl DEF ReceiveResetReply
  <2>2. CASE ~IsResetReply(Head(rx_fifo[Self]))
    BY <1>4, <2>2, ResetFailedControl DEF ReceiveResetReply
  <2> QED
    BY <2>1, <2>2
<1>5. CASE StartExchange(PeerIsBusy)
  BY <1>5 DEF StartExchange, linkVars, ControlInv, ExchangeNeverResets,
              ConnectedBelowThresholds
<1>6. CASE SendRequest
  <2>1. CASE p_pc' = "wait" /\ UNCHANGED linkVars
    BY <1>6, <2>1 DEF SendRequest, linkVars, ControlInv, ExchangeNeverResets,
                      ConnectedBelowThresholds
  <2>2. ASSUME NEW failure, p_pc' = "run", HandleTransactionFailure(failure, state_)
        PROVE  ControlInv'
    BY <2>2, HandleTransactionFailureControl
  <2> QED
    BY <1>6, <2>1, <2>2 DEF SendRequest
<1>7. CASE ReceiveReply
  <2>1. CASE IsApplied(Head(rx_fifo[Self]))
    <3>1. state_' # "ResetSync"
      BY <1>7, <2>1 DEF ReceiveReply, IsApplied, StateAfter
    <3>2. ~connection_reset_required_'
      BY <1>7, <2>1 DEF ReceiveReply, ControlInv, ExchangeNeverResets
    <3> QED
      BY <1>7, <2>1, <3>1, <3>2, HandleSuccessControl DEF ReceiveReply
  <2>2. CASE ~IsApplied(Head(rx_fifo[Self]))
    BY <1>7, <2>2, HandleTransactionFailureControl DEF ReceiveReply
  <2> QED
    BY <2>1, <2>2
<1>8. CASE ReceiveTimesOut(PeerIsBusy)
  BY <1>8, HandleTransactionFailureControl, ResetFailedControl DEF ReceiveTimesOut
<1>9. CASE RestartPrimary(PeerOwesReset)
  BY <1>9, ConstantTypes
  DEF RestartPrimary, ControlInv, ExchangeNeverResets, ConnectedBelowThresholds
<1> QED
  BY <1>1, <1>2, <1>3, <1>4, <1>5, <1>6, <1>7, <1>8, <1>9 DEF PrimaryNext

LEMMA NextControl ==
  ASSUME TypeOK, ControlInv, [Next]_vars
  PROVE  ControlInv'
<1>1. CASE UNCHANGED primaryVars
  BY <1>1 DEF primaryVars, linkVars, ControlInv, ExchangeNeverResets,
              ConnectedBelowThresholds
<1> QED
  BY <1>1, PrimaryNextControl DEF Next, SecondaryNext, TunnelNext, vars

(* An exchange starts only while the Coordinator holds the session for     *)
(* synchronised, and never sends RESET.                                    *)
THEOREM ExchangesNeverReset == Spec => []ExchangeNeverResets
<1>1. ControlInv => ExchangeNeverResets
  BY DEF ControlInv
<1> QED
  BY TypeCorrect, InitControl, NextControl, <1>1, PTL DEF Spec

(* The link is given up at the thresholds and no later: the two streaks,   *)
(* which the failures of an exchange and of a reset both raise, stay below *)
(* them while the Coordinator counts the Peer as connected.                *)
THEOREM ThresholdsDisconnect == Spec => []ConnectedBelowThresholds
<1>1. ControlInv => ConnectedBelowThresholds
  BY DEF ControlInv
<1> QED
  BY TypeCorrect, InitControl, NextControl, <1>1, PTL DEF Spec

LEMMA BackOffGrows ==
  ASSUME TypeOK, BackOff
  PROVE  disconnect_backoff_us_' >= disconnect_backoff_us_
<1>1. disconnect_backoff_us_ \in Nat /\ disconnect_backoff_us_ <= MaxBackoff
  BY ConstantTypes DEF TypeOK, PrimaryTypeOK
<1> QED
  BY <1>1, ConstantTypes DEF BackOff, Doubled, Least

(* The wait before a retry of the reset never gets shorter while the link  *)
(* stays given up, and is always the backoff of the failure before it.     *)
THEOREM RetriesBackOff == Spec => BackoffGrows
<1> DEFINE Grows ==
      disconnected_ /\ disconnected_' =>
        /\ disconnect_backoff_us_' >= disconnect_backoff_us_
        /\ retry_in_' > retry_in_ => retry_in_' = disconnect_backoff_us_
<1>1. ASSUME TypeOK, ControlInv, Next
      PROVE  Grows
  <2> SUFFICES ASSUME disconnected_, disconnected_'
               PROVE  /\ disconnect_backoff_us_' >= disconnect_backoff_us_
                      /\ retry_in_' > retry_in_ => retry_in_' = disconnect_backoff_us_
    OBVIOUS
  <2>1. disconnect_backoff_us_ \in Nat /\ retry_in_ \in Nat
    BY <1>1, ConstantTypes DEF TypeOK, PrimaryTypeOK
  <2>2. p_pc \notin {"exchange", "wait"}
    BY <1>1 DEF ControlInv, ExchangeNeverResets
  <2>3. CASE UNCHANGED linkVars
    BY <2>1, <2>3 DEF linkVars
  <2>4. CASE AwaitRetry
    BY <2>1, <2>4 DEF AwaitRetry
  <2>5. CASE ResetFailed
    BY <1>1, <2>5, BackOffGrows DEF ResetFailed, BackOff
  <2>6. UNCHANGED linkVars \/ AwaitRetry \/ ResetFailed
    <3>1. CASE PrimaryNext
      BY <3>1, <2>2 DEF PrimaryNext, StartReset, SendReset, ReceiveResetReply, HandleSuccess,
                        StartExchange, SendRequest, ReceiveReply, ReceiveTimesOut,
                        RestartPrimary
    <3>2. CASE SecondaryNext \/ TunnelNext
      BY <3>2 DEF SecondaryNext, TunnelNext, primaryVars
    <3> QED
      BY <1>1, <3>1, <3>2 DEF Next
  <2> QED
    BY <2>3, <2>4, <2>5, <2>6
<1>2. ASSUME TypeOK, ControlInv, [Next]_vars
      PROVE  [Grows]_vars
  BY <1>1, <1>2 DEF Grows
<1> HIDE DEF Grows
<1>3. Spec => [][Grows]_vars
  BY TypeCorrect, InitControl, NextControl, <1>2, PTL DEF Spec
<1> QED
  BY <1>3 DEF BackoffGrows, Grows
-----------------------------------------------------------------------------
(* The frames on their way, by what their sender may put in them.          *)

(* The Peer sets the pending hint only in replies that the Coordinator     *)
(* applies.                                                                *)
ToCoordinator ==
  {f \in Frame : f.pending # 0 => f.type \in {"Ack", "Pending", "Data"}}

(* Every GRANT is of the same number of frames. *)
ToPeer == {f \in Frame : f.type = "Grant" => f.arg = BurstGrant}

FramesInv == rx_fifo[Self] \in Seq(ToCoordinator) /\ rx_fifo[Peer] \in Seq(ToPeer)

LEMMA OtherNodes ==
  Other(Self) = Peer /\ Other(Peer) = Self /\ Self # Peer
BY DEF Other, Self, Peer

(* What n transmits joins the frames of the same sender, or is lost. *)
LEMMA TransmitFrames ==
  ASSUME RadioTypeOK, NEW S, NEW n \in Nodes, NEW f \in S, NEW acked, NEW arrives,
         rx_fifo[Other(n)] \in Seq(S), Transmit(n, f, acked, arrives)
  PROVE  rx_fifo'[Other(n)] \in Seq(S) /\ rx_fifo'[n] = rx_fifo[n]
<1>1. Append(rx_fifo[Other(n)], f) \in Seq(S)
  BY AppendProperties
<1>2. Other(n) # n /\ Other(n) \in Nodes
  BY DEF Other, Nodes
<1> QED
  BY <1>1, <1>2 DEF Transmit, RadioTypeOK

LEMMA DropFrames ==
  ASSUME RadioTypeOK, NEW S, NEW n \in Nodes, rx_fifo[n] \in Seq(S),
         (PopFrame(n) /\ rx_fifo[n] # <<>>) \/ FlushRx(n)
  PROVE  rx_fifo'[n] \in Seq(S) /\ \A o \in Nodes \ {n} : rx_fifo'[o] = rx_fifo[o]
<1>1. rx_fifo[n] # <<>> => Tail(rx_fifo[n]) \in Seq(S)
  BY HeadTailProperties
<1>2. <<>> \in Seq(S)
  BY EmptySeq
<1> QED
  BY <1>1, <1>2 DEF PopFrame, FlushRx, RadioTypeOK

LEMMA CoordinatorFrames ==
  ASSUME TypeOK
  PROVE  ControlFrame("Reset", NoSeq, 0, 0) \in ToPeer /\ ChooseCoordinatorTxFrame \in ToPeer
<1>1. ControlFrame("Reset", NoSeq, 0, 0) \in ToPeer
  BY ControlFrameType DEF ControlFrame, FrameTypes, NoSeq, ToPeer
<1>2. ChooseCoordinatorTxFrame.type = "Grant" => ChooseCoordinatorTxFrame.arg = BurstGrant
  BY DEF ChooseCoordinatorTxFrame, GrantFrame, ControlFrame, DataFrame
<1> QED
  BY <1>1, <1>2, ChooseCoordinatorTxFrameType DEF ToPeer

LEMMA PeerFrames ==
  ASSUME TypeOK
  PROVE  /\ ControlFrame("Reset", NoSeq, 0, 0) \in ToCoordinator
         /\ ChoosePeerResponse \in ToCoordinator
<1>1. ControlFrame("Reset", NoSeq, 0, 0) \in ToCoordinator
  BY ControlFrameType DEF ControlFrame, FrameTypes, NoSeq, ToCoordinator
<1>2. ChoosePeerResponse.pending # 0
        => ChoosePeerResponse.type \in {"Ack", "Pending", "Data"}
  BY DEF ChoosePeerResponse, ControlFrame, DataFrame
<1> QED
  BY <1>1, <1>2, ChoosePeerResponseType DEF ToCoordinator

LEMMA InitFrames == Init => FramesInv
BY NodeNames, EmptySeq DEF Init, RadioInit, FramesInv

LEMMA PrimaryNextFrames ==
  ASSUME TypeOK, FramesInv, PrimaryNext
  PROVE  FramesInv'
<1> USE NodeNames, OtherNodes
<1>1. CASE UNCHANGED rx_fifo
  BY <1>1 DEF FramesInv
<1>2. CASE (PopFrame(Self) /\ rx_fifo[Self] # <<>>) \/ FlushRx(Self)
  BY <1>2, DropFrames DEF FramesInv, TypeOK
<1>3. ASSUME NEW f \in ToPeer, NEW acked, NEW arrives, Transmit(Self, f, acked, arrives)
      PROVE  FramesInv'
  BY <1>3, TransmitFrames DEF FramesInv, TypeOK
<1>4. CASE RestartPrimary(PeerOwesReset)
  BY <1>4, EmptySeq DEF RestartPrimary, LoseProcess, FramesInv, TypeOK, RadioTypeOK
<1>5. CASE SendReset \/ SendRequest
  BY <1>3, <1>5, CoordinatorFrames DEF SendReset, SendRequest
<1> QED
  BY <1>1, <1>2, <1>4, <1>5
  DEF PrimaryNext, AwaitRetry, StartReset, ReceiveResetReply, StartExchange, ReceiveReply,
      ReceiveTimesOut, radioVars

LEMMA SecondaryNextFrames ==
  ASSUME TypeOK, FramesInv, SecondaryNext
  PROVE  FramesInv'
<1> USE NodeNames, OtherNodes
<1>1. CASE UNCHANGED rx_fifo
  BY <1>1 DEF FramesInv
<1>2. CASE PopFrame(Peer) /\ rx_fifo[Peer] # <<>>
  BY <1>2, DropFrames DEF FramesInv, TypeOK
<1>3. ASSUME NEW f \in ToCoordinator, NEW acked, NEW arrives,
             Transmit(Peer, f, acked, arrives)
      PROVE  FramesInv'
  BY <1>3, TransmitFrames DEF FramesInv, TypeOK
<1>4. CASE RestartSecondary
  BY <1>4, EmptySeq DEF RestartSecondary, LoseProcess, FramesInv, TypeOK, RadioTypeOK
<1>5. CASE SendResetReply \/ SendReply
  BY <1>3, <1>5, PeerFrames DEF SendResetReply, SendReply
<1> QED
  BY <1>1, <1>2, <1>4, <1>5 DEF SecondaryNext, StartReceive, ReceiveReset, ReceiveRequest

LEMMA NextFrames ==
  ASSUME TypeOK, FramesInv, [Next]_vars
  PROVE  FramesInv'
<1>1. CASE UNCHANGED rx_fifo
  BY <1>1 DEF FramesInv
<1> QED
  BY <1>1, PrimaryNextFrames, SecondaryNextFrames
  DEF Next, TunnelNext, TunnelThread, vars, radioVars
-----------------------------------------------------------------------------
(* What the frames tell the two state machines.                            *)

(* ConnectionReset forgets the hint of the session before. *)
PendingInv ==
  /\ IdleMeansNothingPending
  /\ p_pc \in {"reset", "reset_wait"} => ~peer_has_pending_

(* The frame that a step of ReceiveReply or ReceiveRequest reads. *)
LEMMA HeadFrames ==
  ASSUME FramesInv
  PROVE  /\ rx_fifo[Self] # <<>> => Head(rx_fifo[Self]) \in ToCoordinator
         /\ rx_fifo[Peer] # <<>> => Head(rx_fifo[Peer]) \in ToPeer
BY HeadTailProperties DEF FramesInv

LEMMA NextPending ==
  ASSUME TypeOK, ControlInv, FramesInv, PendingInv, [Next]_vars
  PROVE  PendingInv'
<1> USE DEF PendingInv, IdleMeansNothingPending
<1>1. ASSUME NEW failure, HandleTransactionFailure(failure, state_)
      PROVE  state_' \in {state_, "ResetSync"}
  BY <1>1 DEF HandleTransactionFailure, GiveUp
<1>2. ResetFailed => state_' \in {state_, "ResetSync"} /\ p_pc' = "retry"
  BY <1>1 DEF ResetFailed
<1>3. CASE UNCHANGED primaryVars
  BY <1>3 DEF primaryVars, linkVars, peerVars
<1>4. CASE AwaitRetry
  BY <1>4 DEF AwaitRetry, peerVars
<1>5. CASE StartReset(PeerIsBusy, PeerOwesReset)
  BY <1>5 DEF StartReset, linkVars
<1>6. CASE SendReset
  BY <1>2, <1>6 DEF SendReset, linkVars, peerVars
<1>7. CASE ReceiveResetReply
  BY <1>2, <1>7 DEF ReceiveResetReply, peerVars
<1>8. CASE StartExchange(PeerIsBusy)
  BY <1>8 DEF StartExchange, linkVars, peerVars
<1>9. CASE SendRequest
  BY <1>1, <1>9 DEF SendRequest, linkVars, peerVars
<1>10. CASE ReceiveReply
  <2> DEFINE rx == Head(rx_fifo[Self])
  <2>1. rx.pending # 0 => rx.type \in {"Ack", "Pending", "Data"}
    BY <1>10, HeadFrames DEF ReceiveReply, ToCoordinator
  <2> HIDE DEF rx
  <2>2. p_pc' = "run"
    BY <1>10 DEF ReceiveReply
  <2>3. CASE IsApplied(rx)
    <3>1. state_' = StateAfter(rx) /\ peer_has_pending_' = (rx.pending # 0)
      BY <1>10, <2>3 DEF ReceiveReply, rx, IsApplied
    <3> QED
      BY <2>2, <2>3, <3>1 DEF StateAfter, IsApplied
  <2>4. CASE IsRefused(mac[Self], rx)
    <3>1. peer_has_pending_' = peer_has_pending_ /\ state_' \in {state_, "ResetSync"}
      BY <1>1, <1>10, <2>4 DEF ReceiveReply, rx, IsApplied
    <3> QED
      BY <2>2, <3>1
  <2>5. CASE rx.type \notin {"Ack", "Pending", "Data"}
    <3>1. peer_has_pending_' = FALSE
      BY <1>10, <2>1, <2>5 DEF ReceiveReply, rx, IsRefused
    <3> QED
      BY <2>2, <3>1
  <2> QED
    BY <2>3, <2>4, <2>5 DEF IsApplied
<1>11. CASE ReceiveTimesOut(PeerIsBusy)
  BY <1>1, <1>2, <1>11 DEF ReceiveTimesOut, peerVars
<1>12. CASE RestartPrimary(PeerOwesReset)
  BY <1>12 DEF RestartPrimary
<1> QED
  BY <1>3, <1>4, <1>5, <1>6, <1>7, <1>8, <1>9, <1>10, <1>11, <1>12
  DEF Next, PrimaryNext, SecondaryNext, TunnelNext, vars

(* Idle, the state in which an end without DATA only polls, and slowly,    *)
(* is left as soon as a reply says that the Peer has something to send.    *)
THEOREM IdleHasNothingPending == Spec => []IdleMeansNothingPending
<1>1. Init => PendingInv
  BY DEF Init, PrimaryInit, PendingInv, IdleMeansNothingPending
<1>2. PendingInv => IdleMeansNothingPending
  BY DEF PendingInv
<1> QED
  BY TypeCorrect, InitControl, NextControl, InitFrames, NextFrames, <1>1, NextPending, <1>2,
     PTL DEF Spec

(* The credit at hand when the Peer answers is what the request it answers *)
(* gave.                                                                   *)
CreditInv ==
  s_pc = "reply" => grant_budget_ = IF answering = "Grant" THEN BurstGrant ELSE 0

LEMMA NextCredit ==
  ASSUME TypeOK, FramesInv, CreditInv, [Next]_vars
  PROVE  CreditInv'
<1> USE DEF CreditInv
<1>1. CASE UNCHANGED secondaryVars
  BY <1>1 DEF secondaryVars
<1>2. CASE ReceiveRequest
  <2> DEFINE rx == Head(rx_fifo[Peer])
  <2>1. rx.type = "Grant" => rx.arg = BurstGrant
    BY <1>2, HeadFrames DEF ReceiveRequest, ToPeer
  <2> HIDE DEF rx
  <2>2. s_pc' = "wait" \/ (grant_budget_' = CreditAfter(rx) /\ answering' = rx.type)
    BY <1>2 DEF ReceiveRequest, rx, secondaryVars
  <2> QED
    BY <2>1, <2>2 DEF CreditAfter
<1>3. CASE StartReceive \/ ReceiveReset \/ SendResetReply \/ SendReply \/ RestartSecondary
  BY <1>3 DEF StartReceive, ReceiveReset, SendResetReply, SendReply, RestartSecondary
<1> QED
  BY <1>1, <1>2, <1>3 DEF Next, PrimaryNext, SecondaryNext, TunnelNext, vars

(* A GRANT gives credit for BurstGrant DATA frames, and the Peer sends one *)
(* frame of DATA for it, and none in answer to anything else.              *)
THEOREM OneDataForEachGrant == Spec => []OneDataPerGrant
<1>1. Init => CreditInv
  BY DEF Init, SecondaryInit, CreditInv
<1>2. TypeOK /\ CreditInv => OneDataPerGrant
  BY ChoosePeerResponseType DEF CreditInv, OneDataPerGrant
<1> QED
  BY TypeCorrect, InitFrames, NextFrames, <1>1, NextCredit, <1>2, PTL DEF Spec
-----------------------------------------------------------------------------
(* The MAC state of one node: each step of the link changes it in one of   *)
(* few ways, or not at all.                                                *)

MacStep(n) ==
  \/ UNCHANGED mac[n]
  \/ mac'[n] = WithFragmentInFlight(mac[n])
  \/ rx_fifo[n] # <<>> /\ mac'[n] = AfterFrame(n, Head(rx_fifo[n]))
  \/ mac'[n] = ClearedMac(mac[n])
  \/ mac'[n] = NewMac
  \/ /\ TunnelThread(n)
     /\ mac'[n] = [mac[n] EXCEPT !.read_buffer_ = Append(@, Packet(n, tun_read[n] + 1))]

LEMMA NextMacStep ==
  ASSUME TypeOK, [Next]_vars, NEW n \in Nodes
  PROVE  MacStep(n)
<1> USE NodeNames
<1>1. ASSUME NEW o \in Nodes, NEW m, mac' = [mac EXCEPT ![o] = m]
      PROVE  IF n = o THEN mac'[n] = m ELSE mac'[n] = mac[n]
  BY <1>1 DEF TypeOK, RadioTypeOK
<1>2. CASE UNCHANGED mac
  BY <1>2 DEF MacStep
<1>3. ASSUME NEW o \in Nodes, ClearSession(o) PROVE MacStep(n)
  BY <1>1, <1>3 DEF ClearSession, MacStep
<1>4. ASSUME NEW o \in Nodes, LoseProcess(o) PROVE MacStep(n)
  BY <1>1, <1>4 DEF LoseProcess, MacStep
<1>5. ASSUME NEW o \in Nodes, rx_fifo[o] # <<>>, TakeFrame(o, Head(rx_fifo[o]))
      PROVE  MacStep(n)
  BY <1>1, <1>5 DEF TakeFrame, MacStep
<1>6. ASSUME NEW o \in Nodes, mac' = [mac EXCEPT ![o] = WithFragmentInFlight(@)]
      PROVE  MacStep(n)
  BY <1>1, <1>6 DEF MacStep
<1>7. ASSUME NEW o \in Nodes, TunnelThread(o) PROVE MacStep(n)
  <2>1. mac' = [mac EXCEPT ![o] = [mac[o] EXCEPT !.read_buffer_ =
                                      Append(@, Packet(o, tun_read[o] + 1))]]
    BY <1>7 DEF TunnelThread
  <2> QED
    BY <1>1, <1>7, <2>1 DEF MacStep
<1>8. CASE PrimaryNext
  BY <1>2, <1>3, <1>4, <1>5, <1>6, <1>8
  DEF PrimaryNext, AwaitRetry, StartReset, SendReset, ReceiveResetReply, StartExchange,
      SendRequest, ReceiveReply, ReceiveTimesOut, RestartPrimary, radioVars
<1>9. CASE SecondaryNext
  BY <1>2, <1>3, <1>4, <1>5, <1>6, <1>9
  DEF SecondaryNext, StartReceive, ReceiveReset, ReceiveRequest, SendResetReply,
      SendReply, RestartSecondary
<1> QED
  BY <1>2, <1>7, <1>8, <1>9 DEF Next, TunnelNext, vars, radioVars

(* Appending a packet leaves the head of a queue that is not empty.        *)
LEMMA HeadOfAppend ==
  ASSUME NEW S, NEW s \in Seq(S), NEW e \in S
  PROVE  /\ Append(s, e) # <<>>
         /\ s # <<>> => Head(Append(s, e)) = Head(s)
<1>1. /\ Len(Append(s, e)) = Len(s) + 1
      /\ \A i \in 1..Len(s) : Append(s, e)[i] = s[i]
      /\ Append(s, e) \in Seq(S)
      /\ Len(s) \in Nat
  BY AppendProperties, LenProperties
<1>2. Append(s, e) # <<>>
  BY <1>1, EmptySeq
<1>3. s # <<>> => 1 \in 1..Len(s)
  BY <1>1, EmptySeq
<1>4. s # <<>> => Head(s) = s[1]
  BY HeadTailProperties
<1>5. Head(Append(s, e)) = Append(s, e)[1]
  BY <1>1, <1>2, HeadTailProperties
<1> QED
  BY <1>1, <1>2, <1>3, <1>4, <1>5

LEMMA ClearedFragment ==
  FragmentIsHead(NewMac) /\ \A m \in Mac : FragmentIsHead(ClearedMac(m))
BY DEF FragmentIsHead, NewMac, ClearedMac

LEMMA BuildFragment ==
  ASSUME NEW m \in Mac, FragmentIsHead(m)
  PROVE  FragmentIsHead(WithFragmentInFlight(m))
BY DEF FragmentIsHead, WithFragmentInFlight, Mac

LEMMA CommitFragment ==
  ASSUME NEW m \in Mac, NEW ack \in Nat, FragmentIsHead(m)
  PROVE  FragmentIsHead(CommitAckLocked(m, ack))
BY DEF FragmentIsHead, CommitAckLocked, Mac

(* Receiving does not touch what is in flight. *)
LEMMA ConsumeFragment ==
  ASSUME NEW m \in Mac, NEW f, FragmentIsHead(m)
  PROVE  FragmentIsHead(ConsumeDataFrameLocked(m, f))
BY DEF FragmentIsHead, ConsumeDataFrameLocked, Mac

LEMMA PushFragment ==
  ASSUME NEW m \in Mac, NEW packet \in QueuedPacket, FragmentIsHead(m)
  PROVE  FragmentIsHead([m EXCEPT !.read_buffer_ = Append(@, packet)])
<1>1. m.read_buffer_ # <<>> => Head(Append(m.read_buffer_, packet)) = Head(m.read_buffer_)
  BY HeadOfAppend DEF Mac
<1>2. Append(m.read_buffer_, packet) # <<>>
  BY HeadOfAppend DEF Mac
<1> QED
  BY <1>1, <1>2 DEF FragmentIsHead, Mac

LEMMA NextFragment ==
  ASSUME TypeOK, InFlightIsHead, [Next]_vars
  PROVE  InFlightIsHead'
<1> SUFFICES ASSUME NEW n \in Nodes PROVE FragmentIsHead(mac'[n])
  BY DEF InFlightIsHead
<1>1. mac[n] \in Mac /\ FragmentIsHead(mac[n])
  BY DEF TypeOK, RadioTypeOK, InFlightIsHead
<1>2. CASE UNCHANGED mac[n]
  BY <1>1, <1>2
<1>3. CASE mac'[n] = WithFragmentInFlight(mac[n])
  BY <1>1, <1>3, BuildFragment
<1>4. CASE rx_fifo[n] # <<>> /\ mac'[n] = AfterFrame(n, Head(rx_fifo[n]))
  <2> DEFINE f == Head(rx_fifo[n])
             m == CommitAckLocked(mac[n], f.ack)
  <2>1. f.ack \in Nat
    BY <1>4, HeadOfFifo DEF Frame, TypeOK
  <2>2. m \in Mac /\ FragmentIsHead(m)
    BY <1>1, <2>1, CommitAckLockedType, CommitFragment
  <2> HIDE DEF f, m
  <2>3. mac'[n] = ConsumeDataFrameLocked(m, f)
    BY <1>4 DEF AfterFrame, f, m
  <2> QED
    BY <2>2, <2>3, ConsumeFragment
<1>5. CASE mac'[n] = ClearedMac(mac[n]) \/ mac'[n] = NewMac
  BY <1>1, <1>5, ClearedFragment
<1>6. CASE /\ TunnelThread(n)
           /\ mac'[n] = [mac[n] EXCEPT !.read_buffer_ =
                                         Append(@, Packet(n, tun_read[n] + 1))]
  <2>1. Packet(n, tun_read[n] + 1) \in QueuedPacket
    BY <1>6, NextPacketType DEF TypeOK
  <2> QED
    BY <1>1, <1>6, <2>1, PushFragment
<1> QED
  BY <1>2, <1>3, <1>4, <1>5, <1>6, NextMacStep DEF MacStep

(* TunnelThread pushes, acknowledgements erase and retransmissions build   *)
(* frames, and yet the fragment in flight always is the beginning of the   *)
(* queue's head: an ACK for it erases the very bytes that were sent.       *)
THEOREM FragmentInFlightIsHead == Spec => []InFlightIsHead
<1>1. Init => InFlightIsHead
  BY ClearedFragment DEF Init, RadioInit, InFlightIsHead
<1> QED
  BY TypeCorrect, <1>1, NextFragment, PTL DEF Spec

-----------------------------------------------------------------------------
(* What the queue of packets is, seen by the other thread of the node.     *)

LEMMA ConsumedLength ==
  ASSUME NEW queue \in Seq(QueuedPacket), NEW payload
  PROVE  Len(Consumed(queue, payload)) <= Len(queue)
<1>1. CASE queue = <<>>
  BY <1>1, LenProperties DEF Consumed
<1>2. CASE queue # <<>>
  <2>1. Len(Tail(queue)) = Len(queue) - 1 /\ Len(queue) \in Nat
    BY <1>2, HeadTailProperties, LenProperties
  <2>2. \A h : Len([queue EXCEPT ![1] = h]) = Len(queue)
    BY LenProperties
  <2> QED
    BY <1>2, <2>1, <2>2 DEF Consumed
<1> QED
  BY <1>1, <1>2

LEMMA AfterFrameLength ==
  ASSUME TypeOK, NEW n \in Nodes, NEW f \in Frame
  PROVE  Len(AfterFrame(n, f).read_buffer_) <= Len(mac[n].read_buffer_)
<1>1. mac[n] \in Mac /\ mac[n].read_buffer_ \in Seq(QueuedPacket)
  BY DEF TypeOK, RadioTypeOK, Mac
<1> DEFINE m == CommitAckLocked(mac[n], f.ack)
<1>2. m \in Mac
  BY <1>1, CommitAckLockedType DEF Frame
<1>3. \/ m.read_buffer_ = mac[n].read_buffer_
      \/ m.read_buffer_ = Consumed(mac[n].read_buffer_, mac[n].tx_inflight_payload_)
  BY <1>1 DEF CommitAckLocked, Mac
<1>4. Len(m.read_buffer_) <= Len(mac[n].read_buffer_)
  BY <1>1, <1>3, ConsumedLength, LenProperties
<1> HIDE DEF m
<1>5. ConsumeDataFrameLocked(m, f).read_buffer_ = m.read_buffer_
  BY <1>2 DEF ConsumeDataFrameLocked, Mac
<1> QED
  BY <1>4, <1>5 DEF AfterFrame, m

LEMMA NextQueue ==
  ASSUME TypeOK, QueueIsBounded, [Next]_vars
  PROVE  QueueIsBounded'
<1> SUFFICES ASSUME NEW n \in Nodes
             PROVE  Len(mac'[n].read_buffer_) <= MaxBufferedFrames + 1
  BY DEF QueueIsBounded
<1>1. /\ mac[n] \in Mac
      /\ mac[n].read_buffer_ \in Seq(QueuedPacket)
      /\ Len(mac[n].read_buffer_) \in Nat
      /\ Len(mac[n].read_buffer_) <= MaxBufferedFrames + 1
      /\ MaxBufferedFrames \in Nat
  BY LenProperties, RadioAssumption
  DEF TypeOK, RadioTypeOK, Mac, QueueIsBounded, RadioAssumption
<1>2. CASE UNCHANGED mac[n]
  BY <1>1, <1>2
<1>3. CASE mac'[n] = WithFragmentInFlight(mac[n])
  BY <1>1, <1>3 DEF WithFragmentInFlight, Mac
<1>4. CASE rx_fifo[n] # <<>> /\ mac'[n] = AfterFrame(n, Head(rx_fifo[n]))
  <2>1. Head(rx_fifo[n]) \in Frame
    BY <1>4, HeadOfFifo DEF TypeOK
  <2>2. AfterFrame(n, Head(rx_fifo[n])) \in Mac
    BY <2>1, AfterFrameType DEF TypeOK
  <2>3. Len(mac'[n].read_buffer_) \in Nat
    BY <1>4, <2>2, LenProperties DEF Mac
  <2> QED
    BY <1>1, <1>4, <2>1, <2>3, AfterFrameLength
<1>5. CASE mac'[n] = ClearedMac(mac[n]) \/ mac'[n] = NewMac
  <2>1. mac'[n].read_buffer_ \in {mac[n].read_buffer_, <<>>}
    BY <1>1, <1>5 DEF ClearedMac, NewMac
  <2> QED
    BY <1>1, <2>1, EmptySeq
<1>6. CASE /\ TunnelThread(n)
           /\ mac'[n] = [mac[n] EXCEPT !.read_buffer_ =
                                         Append(@, Packet(n, tun_read[n] + 1))]
  <2>1. Len(mac[n].read_buffer_) <= MaxBufferedFrames
    BY <1>1, <1>6 DEF TunnelThread, IsThrottled
  <2>2. mac'[n].read_buffer_ = Append(mac[n].read_buffer_, Packet(n, tun_read[n] + 1))
    BY <1>1, <1>6 DEF Mac
  <2>3. Len(mac'[n].read_buffer_) = Len(mac[n].read_buffer_) + 1
    BY <1>1, <2>2, LenProperties
  <2> QED
    BY <1>1, <2>1, <2>3
<1> QED
  BY <1>2, <1>3, <1>4, <1>5, <1>6, NextMacStep DEF MacStep

(* No traffic makes the queue of packets longer than one above the limit   *)
(* at which TunnelThread sleeps.                                           *)
THEOREM BoundedQueue == Spec => []QueueIsBounded
<1>1. Init => QueueIsBounded
  BY EmptySeq, RadioAssumption DEF Init, RadioInit, NewMac, QueueIsBounded, RadioAssumption
<1> QED
  BY TypeCorrect, <1>1, NextQueue, PTL DEF Spec

(* A push does not empty a queue, nor does it touch the fragment in flight. *)
LEMMA PushKeepsData ==
  ASSUME TypeOK, NEW n \in Nodes, NEW o \in Nodes, TunnelThread(o), LocalHasData(mac[n])
  PROVE  LocalHasData(mac'[n])
<1>1. Packet(o, tun_read[o] + 1) \in QueuedPacket
  BY NextPacketType DEF TypeOK
<1>2. mac[o] \in Mac /\ mac[o].read_buffer_ \in Seq(QueuedPacket)
  BY DEF TypeOK, RadioTypeOK, Mac
<1> DEFINE pushed == [mac[o] EXCEPT !.read_buffer_ = Append(@, Packet(o, tun_read[o] + 1))]
<1>3. mac' = [mac EXCEPT ![o] = pushed]
  BY DEF TunnelThread
<1>4. LocalHasData(pushed)
  BY <1>1, <1>2, HeadOfAppend DEF LocalHasData, Mac
<1> HIDE DEF pushed
<1> QED
  BY <1>3, <1>4 DEF TypeOK, RadioTypeOK

(* The protocol thread of one node does not touch the MAC state of the     *)
(* other.                                                                  *)
LEMMA OthersKeepData ==
  ASSUME TypeOK
  PROVE  /\ SecondaryNext => UNCHANGED mac[Self]
         /\ PrimaryNext => UNCHANGED mac[Peer]
<1> USE NodeNames, OtherNodes
<1>1. ASSUME NEW n \in Nodes, NEW o \in Nodes, n # o, NEW m, mac' = [mac EXCEPT ![o] = m]
      PROVE  UNCHANGED mac[n]
  BY <1>1 DEF TypeOK, RadioTypeOK
<1>2. ASSUME NEW n \in Nodes, NEW o \in Nodes, n # o,
             \/ ClearSession(o) \/ LoseProcess(o) \/ TakeFrame(o, Head(rx_fifo[o]))
             \/ mac' = [mac EXCEPT ![o] = WithFragmentInFlight(@)]
      PROVE  UNCHANGED mac[n]
  BY <1>1, <1>2 DEF ClearSession, LoseProcess, TakeFrame
<1>3. PrimaryNext => UNCHANGED mac[Peer]
  BY <1>2 DEF PrimaryNext, AwaitRetry, StartReset, SendReset, ReceiveResetReply,
              StartExchange, SendRequest, ReceiveReply, ReceiveTimesOut, RestartPrimary,
              radioVars
<1>4. SecondaryNext => UNCHANGED mac[Self]
  BY <1>2 DEF SecondaryNext, StartReceive, ReceiveReset, ReceiveRequest, SendResetReply,
              SendReply, RestartSecondary
<1> QED
  BY <1>3, <1>4

LEMMA NextLocalData ==
  ASSUME TypeOK, LocalDataStaysTrue, [Next]_vars
  PROVE  LocalDataStaysTrue'
<1> USE NodeNames, OtherNodes DEF LocalDataStaysTrue
<1>1. CASE PrimaryNext
  <2>1. UNCHANGED <<mac[Peer], s_pc, s_local_has_data>>
    BY <1>1, OthersKeepData DEF PrimaryNext, secondaryVars
  <2>2. CASE StartExchange(PeerIsBusy)
    BY <2>1, <2>2 DEF StartExchange, radioVars
  <2>3. CASE AwaitRetry
    BY <2>1, <2>3 DEF AwaitRetry, radioVars, exchangeVars
  <2>4. CASE p_pc' # "exchange"
    BY <2>1, <2>4
  <2>5. ResetFailed => p_pc' # "exchange"
    BY DEF ResetFailed
  <2>6. SendReset \/ ReceiveResetReply \/ ReceiveTimesOut(PeerIsBusy) => p_pc' # "exchange"
    BY <2>5 DEF SendReset, ReceiveResetReply, ReceiveTimesOut
  <2>7. StartReset(PeerIsBusy, PeerOwesReset) \/ ReceiveReply \/ RestartPrimary(PeerOwesReset) => p_pc' # "exchange"
    BY DEF StartReset, ReceiveReply, RestartPrimary
  <2>8. SendRequest => p_pc' # "exchange"
    BY DEF SendRequest
  <2> QED
    BY <1>1, <2>2, <2>3, <2>4, <2>6, <2>7, <2>8 DEF PrimaryNext
<1>2. CASE SecondaryNext
  <2>1. UNCHANGED <<mac[Self], p_pc, p_local_has_data>>
    BY <1>2, OthersKeepData DEF SecondaryNext, primaryVars, exchangeVars
  <2>2. CASE ReceiveRequest
    <3> DEFINE rx == Head(rx_fifo[Peer])
    <3>1. TakeFrame(Peer, rx) /\ (s_pc' = "reply" => s_local_has_data' = LocalHasDataAfter(rx))
      BY <2>2 DEF ReceiveRequest, secondaryVars
    <3>2. mac'[Peer] = AfterFrame(Peer, rx)
      BY <3>1 DEF TakeFrame, TypeOK, RadioTypeOK
    <3> QED
      BY <2>1, <3>1, <3>2 DEF LocalHasDataAfter
  <2>3. CASE s_pc' # "reply"
    BY <2>1, <2>3
  <2> QED
    BY <1>2, <2>2, <2>3
    DEF SecondaryNext, StartReceive, ReceiveReset, SendResetReply, SendReply, RestartSecondary
<1>3. CASE TunnelNext
  BY <1>3, PushKeepsData
  DEF TunnelNext, primaryVars, exchangeVars, secondaryVars
<1>4. CASE UNCHANGED vars
  BY <1>4 DEF vars, radioVars, primaryVars, exchangeVars, secondaryVars
<1> QED
  BY <1>1, <1>2, <1>3, <1>4 DEF Next

(* Both protocol threads look at the queue in one critical section and act *)
(* on what they saw in the next one. What they saw is still so then: the   *)
(* branches that find no frame to send cannot be reached.                  *)
THEOREM LocalDataIsNotStale == Spec => []LocalDataStaysTrue
<1>1. Init => LocalDataStaysTrue
  BY DEF Init, PrimaryInit, SecondaryInit, LocalDataStaysTrue
<1> QED
  BY TypeCorrect, <1>1, NextLocalData, PTL DEF Spec
=============================================================================
