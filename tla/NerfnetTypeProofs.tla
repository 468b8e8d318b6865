-------------------------- MODULE NerfnetTypeProofs --------------------------
(***************************************************************************)
(* Every step of the link keeps every variable in its type: one lemma per  *)
(* action, and the theorem.                                                *)
(***************************************************************************)
EXTENDS Nerfnet, RadioInterfaceProofs

CoordinatorStates == {"ResetSync", "Idle", "IssueGrant", "ActiveRx"}

(* The members that HandleTransactionFailure and a success assign. *)
LinkTypeOK ==
  /\ state_ \in CoordinatorStates
  /\ connection_reset_required_ \in BOOLEAN
  /\ disconnected_ \in BOOLEAN
  /\ send_fail_streak_ \in Nat
  /\ timeout_fail_streak_ \in Nat
  /\ disconnect_backoff_us_ \in 1..MaxBackoff
  /\ retry_in_ \in 0..MaxBackoff
  /\ current_poll_interval_us_ \in Nat

(* The constants, in the form the provers use best. *)
LEMMA ConstantTypes ==
  /\ BurstGrant \in Nat
  /\ Uint8Max \in Nat
  /\ FailureThreshold \in Nat /\ FailureThreshold >= 1
  /\ InitialBackoff \in Nat /\ MaxBackoff \in Nat
  /\ 1 <= InitialBackoff /\ InitialBackoff <= MaxBackoff
  /\ PollInterval \in Nat /\ IdlePollInterval \in Nat
  /\ ActivePollInterval \in Nat /\ MaxPollInterval \in Nat
BY RadioAssumption, PrimaryAssumption DEF RadioAssumption, PrimaryAssumption

LEMMA NodeNames == Self \in Nodes /\ Peer \in Nodes
BY DEF Self, Peer, Nodes

LEMMA DoubledType ==
  ASSUME NEW x \in Nat, NEW cap \in Nat
  PROVE  Doubled(x, cap) \in Nat /\ Doubled(x, cap) <= cap
                /\ (x >= 1 /\ cap >= 1 => Doubled(x, cap) >= 1)
BY DEF Doubled, Least

LEMMA HandleTransactionFailureType ==
  ASSUME PrimaryTypeOK, NEW failure, NEW state \in CoordinatorStates,
         HandleTransactionFailure(failure, state)
  PROVE  LinkTypeOK'
<1>1. Doubled(current_poll_interval_us_, MaxPollInterval) \in Nat
  BY DoubledType, ConstantTypes DEF PrimaryTypeOK
<1>2. SendStreakAfter(failure) \in Nat /\ TimeoutStreakAfter(failure) \in Nat
  BY DEF SendStreakAfter, TimeoutStreakAfter, PrimaryTypeOK
<1>3. disconnect_backoff_us_ \in 0..MaxBackoff
  BY ConstantTypes DEF PrimaryTypeOK
<1>4. CASE DisconnectNow(SendStreakAfter(failure), TimeoutStreakAfter(failure))
  BY <1>2, <1>3, <1>4
  DEF HandleTransactionFailure, GiveUp, PrimaryTypeOK, LinkTypeOK, CoordinatorStates
<1>5. CASE ~DisconnectNow(SendStreakAfter(failure), TimeoutStreakAfter(failure))
  BY <1>1, <1>2, <1>5
  DEF HandleTransactionFailure, PrimaryTypeOK, LinkTypeOK, CoordinatorStates
<1> QED
  BY <1>4, <1>5

LEMMA HandleSuccessType ==
  ASSUME PrimaryTypeOK, HandleSuccess, state_' \in CoordinatorStates,
         connection_reset_required_' \in BOOLEAN
  PROVE  LinkTypeOK'
<1>1. send_fail_streak_' \in Nat /\ timeout_fail_streak_' \in Nat
  BY DEF HandleSuccess
<1>2. disconnect_backoff_us_' \in 1..MaxBackoff
  BY ConstantTypes DEF HandleSuccess
<1>3. retry_in_' \in 0..MaxBackoff
  BY ConstantTypes DEF HandleSuccess
<1>4. disconnected_' \in BOOLEAN /\ current_poll_interval_us_' \in Nat
  BY DEF HandleSuccess, PrimaryTypeOK
<1> QED
  BY <1>1, <1>2, <1>3, <1>4 DEF LinkTypeOK

LEMMA ResetFailedType ==
  ASSUME PrimaryTypeOK, ResetFailed
  PROVE  LinkTypeOK' /\ p_pc' = "retry"
<1>1. state_ \in CoordinatorStates
  BY DEF PrimaryTypeOK, CoordinatorStates
<1>2. CASE disconnected_
  <2>1. Doubled(disconnect_backoff_us_, MaxBackoff) \in 1..MaxBackoff
    BY DoubledType, ConstantTypes DEF PrimaryTypeOK
  <2> QED
    BY <1>1, <1>2, <2>1, ConstantTypes DEF ResetFailed, BackOff, PrimaryTypeOK, LinkTypeOK
<1>3. CASE ~disconnected_
  BY <1>1, <1>3, HandleTransactionFailureType DEF ResetFailed
<1> QED
  BY <1>2, <1>3 DEF ResetFailed

LEMMA SleepForPollType ==
  ASSUME SleepForPoll
  PROVE  current_poll_interval_us_' \in Nat
BY ConstantTypes DEF SleepForPoll

-----------------------------------------------------------------------------
(* The Coordinator's actions.                                              *)

LEMMA AwaitRetryType ==
  ASSUME TypeOK, AwaitRetry
  PROVE  RadioTypeOK' /\ PrimaryTypeOK'
<1>1. RadioTypeOK'
  BY DEF AwaitRetry, TypeOK, RadioTypeOK, radioVars
<1>2. PrimaryTypeOK'
  BY ConstantTypes DEF AwaitRetry, TypeOK, PrimaryTypeOK, peerVars, exchangeVars
<1> QED
  BY <1>1, <1>2

LEMMA StartResetType ==
  ASSUME TypeOK, NEW busy, NEW owes, StartReset(busy, owes)
  PROVE  RadioTypeOK' /\ PrimaryTypeOK'
<1>1. NodeTypeOK'
  BY NodeNames, ClearSessionType DEF StartReset, TypeOK
<1>2. rx_fifo' \in [Nodes -> Seq(Frame)]
  BY NodeNames, FlushRxType DEF StartReset, TypeOK
<1>3. RadioTypeOK'
  BY <1>1, <1>2 DEF StartReset, TypeOK, RadioTypeOK, NodeTypeOK
<1>4. current_poll_interval_us_' \in Nat
  BY SleepForPollType DEF StartReset, TypeOK, PrimaryTypeOK
<1>5. consecutive_local_data_frames_' \in 0..Uint8Max
  BY ConstantTypes DEF StartReset
<1>6. peer_has_pending_' \in BOOLEAN /\ p_pc' = "reset"
  BY DEF StartReset
<1>7. PrimaryTypeOK'
  BY <1>4, <1>5, <1>6
  DEF StartReset, TypeOK, PrimaryTypeOK, linkVars, exchangeVars
<1> QED
  BY <1>3, <1>7

LEMMA SendResetType ==
  ASSUME TypeOK, SendReset
  PROVE  RadioTypeOK' /\ PrimaryTypeOK'
<1>1. ControlFrame("Reset", NoSeq, 0, 0) \in Frame
  BY ControlFrameType DEF FrameTypes, NoSeq
<1>2. PICK ok \in BOOLEAN, arrives \in BOOLEAN :
        /\ Transmit(Self, ControlFrame("Reset", NoSeq, 0, 0), ok, arrives)
        /\ listening' = [listening EXCEPT ![Self] = ok]
        /\ IF ok
           THEN p_pc' = "reset_wait" /\ UNCHANGED <<linkVars, current_poll_interval_us_>>
           ELSE ResetFailed
  BY DEF SendReset
<1>3. rx_fifo' \in [Nodes -> Seq(Frame)]
  BY <1>1, <1>2, NodeNames, TransmitType DEF TypeOK
<1>4. RadioTypeOK'
  BY <1>2, <1>3 DEF SendReset, TypeOK, RadioTypeOK
<1>5. LinkTypeOK' /\ p_pc' \in {"retry", "reset_wait"}
  BY <1>2, ResetFailedType DEF TypeOK, PrimaryTypeOK, LinkTypeOK, linkVars, CoordinatorStates
<1>6. PrimaryTypeOK'
  BY <1>5 DEF SendReset, TypeOK, PrimaryTypeOK, LinkTypeOK, CoordinatorStates,
              peerVars, exchangeVars
<1> QED
  BY <1>4, <1>6

LEMMA ReceiveResetReplyType ==
  ASSUME TypeOK, ReceiveResetReply
  PROVE  RadioTypeOK' /\ PrimaryTypeOK'
<1>1. rx_fifo' \in [Nodes -> Seq(Frame)]
  BY NodeNames, FlushRxType, PopFrameType DEF ReceiveResetReply, TypeOK
<1>2. RadioTypeOK'
  BY <1>1 DEF ReceiveResetReply, TypeOK, RadioTypeOK
<1>3. LinkTypeOK' /\ p_pc' \in {"run", "retry"}
  <2>1. CASE IsResetReply(Head(rx_fifo[Self]))
    BY <2>1, HandleSuccessType DEF ReceiveResetReply, TypeOK, CoordinatorStates
  <2>2. CASE ~IsResetReply(Head(rx_fifo[Self]))
    BY <2>2, ResetFailedType DEF ReceiveResetReply, TypeOK
  <2> QED
    BY <2>1, <2>2
<1>4. PrimaryTypeOK'
  BY <1>3 DEF ReceiveResetReply, TypeOK, PrimaryTypeOK, LinkTypeOK, CoordinatorStates,
              peerVars, exchangeVars
<1> QED
  BY <1>2, <1>4

LEMMA StartExchangeType ==
  ASSUME TypeOK, NEW busy, StartExchange(busy)
  PROVE  RadioTypeOK' /\ PrimaryTypeOK'
<1>1. RadioTypeOK'
  BY DEF StartExchange, TypeOK, RadioTypeOK, radioVars
<1>2. p_local_has_data' \in BOOLEAN
  BY NodeNames DEF StartExchange, LocalHasData, TypeOK, RadioTypeOK, Mac
<1>3. current_poll_interval_us_' \in Nat
  BY SleepForPollType DEF StartExchange
<1>4. PrimaryTypeOK'
  BY <1>2, <1>3 DEF StartExchange, TypeOK, PrimaryTypeOK, linkVars, peerVars
<1> QED
  BY <1>1, <1>4

(* ChooseCoordinatorTxFrame returns a frame. *)
LEMMA ChooseCoordinatorTxFrameType ==
  ASSUME TypeOK
  PROVE  ChooseCoordinatorTxFrame \in Frame
<1>1. mac[Self] \in Mac /\ mac[Self].last_rx_seq_ \in Nat
  BY NodeNames DEF TypeOK, RadioTypeOK, Mac
<1>2. DataFrame(WithFragmentInFlight(mac[Self])) \in Frame
  BY <1>1, WithFragmentInFlightType, DataFrameType
<1>3. GrantFrame \in Frame
  BY <1>1, ConstantTypes, ControlFrameType DEF GrantFrame, FrameTypes
<1>4. \A type \in {"Reset", "Pending", "Invalid"} :
         ControlFrame(type, mac[Self].last_rx_seq_, 0, 0) \in Frame
  BY <1>1, ControlFrameType DEF FrameTypes
<1> HIDE DEF GrantFrame
<1> QED
  BY <1>2, <1>3, <1>4 DEF ChooseCoordinatorTxFrame

LEMMA SendRequestType ==
  ASSUME TypeOK, SendRequest
  PROVE  RadioTypeOK' /\ PrimaryTypeOK'
<1> DEFINE tx == ChooseCoordinatorTxFrame
<1>1. tx \in Frame /\ tx.type \in FrameTypes
  BY ChooseCoordinatorTxFrameType DEF Frame
<1> HIDE DEF tx
<1>2. PICK ok \in BOOLEAN, arrives \in BOOLEAN :
        /\ Transmit(Self, tx, ok, arrives)
        /\ listening' = IF tx.type = "Invalid" THEN listening
                        ELSE [listening EXCEPT ![Self] = ok]
        /\ IF ok
           THEN p_pc' = "wait" /\ UNCHANGED <<linkVars, current_poll_interval_us_>>
           ELSE /\ p_pc' = "run"
                /\ HandleTransactionFailure(
                     IF tx.type = "Invalid" THEN "Protocol" ELSE "Send", state_)
  BY DEF SendRequest, tx
<1>3. rx_fifo' \in [Nodes -> Seq(Frame)]
  BY <1>1, <1>2, NodeNames, TransmitType DEF TypeOK
<1>4. mac' \in [Nodes -> Mac]
  BY WithFragmentInFlightType, NodeNames DEF SendRequest, TypeOK, RadioTypeOK
<1>5. listening' \in [Nodes -> BOOLEAN]
  BY <1>2 DEF TypeOK, RadioTypeOK
<1>6. RadioTypeOK'
  BY <1>3, <1>4, <1>5 DEF SendRequest, TypeOK, RadioTypeOK
<1>7. state_ \in CoordinatorStates
  BY DEF TypeOK, PrimaryTypeOK, CoordinatorStates
<1>8. LinkTypeOK' /\ p_pc' \in {"run", "wait"}
  <2>1. CASE ok
    BY <1>2, <1>7, <2>1 DEF TypeOK, PrimaryTypeOK, LinkTypeOK, linkVars
  <2>2. CASE ~ok
    BY <1>2, <1>7, <2>2, HandleTransactionFailureType DEF TypeOK
  <2> QED
    BY <2>1, <2>2
<1>9. tx_type' \in FrameTypes
  BY <1>1 DEF SendRequest, tx
<1>10. PrimaryTypeOK'
  BY <1>8, <1>9 DEF SendRequest, TypeOK, PrimaryTypeOK, LinkTypeOK, CoordinatorStates,
                    peerVars
<1> QED
  BY <1>6, <1>10

LEMMA ReceiveReplyType ==
  ASSUME TypeOK, ReceiveReply
  PROVE  RadioTypeOK' /\ PrimaryTypeOK'
<1> DEFINE rx == Head(rx_fifo[Self])
<1>1. rx \in Frame
  BY NodeNames, HeadOfFifo DEF ReceiveReply, TypeOK
<1> HIDE DEF rx
<1>2. NodeTypeOK'
  BY <1>1, NodeNames, TakeFrameType DEF ReceiveReply, TypeOK, rx
<1>3. rx_fifo' \in [Nodes -> Seq(Frame)]
  BY NodeNames, PopFrameType DEF ReceiveReply, TypeOK
<1>4. RadioTypeOK'
  BY <1>2, <1>3 DEF ReceiveReply, TypeOK, RadioTypeOK, NodeTypeOK
<1>5. peer_has_pending_' \in BOOLEAN
  BY DEF ReceiveReply, TypeOK, PrimaryTypeOK
<1>6. consecutive_local_data_frames_' \in 0..Uint8Max
  <2>1. Least(consecutive_local_data_frames_ + 1, Uint8Max) \in 0..Uint8Max
    BY ConstantTypes DEF Least, TypeOK, PrimaryTypeOK
  <2> QED
    BY <2>1, ConstantTypes DEF ReceiveReply, DataFramesAfter
<1>7. state_ \in CoordinatorStates
  BY DEF TypeOK, PrimaryTypeOK, CoordinatorStates
<1>8. LinkTypeOK'
  <2>1. CASE IsApplied(rx)
    <3>1. state_' \in CoordinatorStates
      BY <1>7, <2>1 DEF ReceiveReply, rx, StateAfter, CoordinatorStates
    <3>2. connection_reset_required_' \in BOOLEAN
      BY <2>1 DEF ReceiveReply, rx, TypeOK, PrimaryTypeOK
    <3> QED
      BY <2>1, <3>1, <3>2, HandleSuccessType DEF ReceiveReply, rx, TypeOK
  <2>2. CASE ~IsApplied(rx)
    BY <1>7, <2>2, HandleTransactionFailureType DEF ReceiveReply, rx, TypeOK
  <2> QED
    BY <2>1, <2>2
<1>9. PrimaryTypeOK'
  BY <1>5, <1>6, <1>8 DEF ReceiveReply, TypeOK, PrimaryTypeOK, LinkTypeOK,
                          CoordinatorStates, exchangeVars
<1> QED
  BY <1>4, <1>9

LEMMA ReceiveTimesOutType ==
  ASSUME TypeOK, NEW busy, ReceiveTimesOut(busy)
  PROVE  RadioTypeOK' /\ PrimaryTypeOK'
<1>1. RadioTypeOK'
  BY DEF ReceiveTimesOut, TypeOK, RadioTypeOK, radioVars
<1>2. state_ \in CoordinatorStates
  BY DEF TypeOK, PrimaryTypeOK, CoordinatorStates
<1>3. LinkTypeOK' /\ p_pc' \in {"run", "retry"}
  BY <1>2, HandleTransactionFailureType, ResetFailedType DEF ReceiveTimesOut, TypeOK
<1>4. PrimaryTypeOK'
  BY <1>3 DEF ReceiveTimesOut, TypeOK, PrimaryTypeOK, LinkTypeOK, CoordinatorStates,
              peerVars, exchangeVars
<1> QED
  BY <1>1, <1>4

LEMMA RestartPrimaryType ==
  ASSUME TypeOK, NEW owes, RestartPrimary(owes)
  PROVE  RadioTypeOK' /\ PrimaryTypeOK'
<1>1. RadioTypeOK'
  BY NodeNames, LoseProcessType DEF RestartPrimary, TypeOK
<1>2. /\ disconnect_backoff_us_' \in 1..MaxBackoff
      /\ retry_in_' \in 0..MaxBackoff
      /\ consecutive_local_data_frames_' \in 0..Uint8Max
      /\ current_poll_interval_us_' \in Nat
  BY ConstantTypes DEF RestartPrimary
<1>3. PrimaryTypeOK'
  BY <1>2 DEF RestartPrimary, PrimaryTypeOK, FrameTypes
<1> QED
  BY <1>1, <1>3
-----------------------------------------------------------------------------
(* The Peer's actions.                                                     *)

LEMMA StartReceiveType ==
  ASSUME TypeOK, StartReceive
  PROVE  RadioTypeOK' /\ SecondaryTypeOK'
<1>1. RadioTypeOK'
  BY DEF StartReceive, TypeOK, RadioTypeOK
<1>2. SecondaryTypeOK'
  BY DEF StartReceive, TypeOK, SecondaryTypeOK
<1> QED
  BY <1>1, <1>2

LEMMA ReceiveResetType ==
  ASSUME TypeOK, ReceiveReset
  PROVE  RadioTypeOK' /\ SecondaryTypeOK'
<1>1. NodeTypeOK'
  BY NodeNames, ClearSessionType DEF ReceiveReset, TypeOK
<1>2. rx_fifo' \in [Nodes -> Seq(Frame)]
  BY NodeNames, PopFrameType DEF ReceiveReset, TypeOK
<1>3. RadioTypeOK'
  BY <1>1, <1>2 DEF ReceiveReset, TypeOK, RadioTypeOK, NodeTypeOK
<1>4. SecondaryTypeOK'
  BY DEF ReceiveReset, TypeOK, SecondaryTypeOK
<1> QED
  BY <1>3, <1>4

LEMMA ReceiveRequestType ==
  ASSUME TypeOK, ReceiveRequest
  PROVE  RadioTypeOK' /\ SecondaryTypeOK'
<1> DEFINE rx == Head(rx_fifo[Peer])
<1>1. rx \in Frame
  BY NodeNames, HeadOfFifo DEF ReceiveRequest, TypeOK
<1> HIDE DEF rx
<1>2. NodeTypeOK'
  BY <1>1, NodeNames, TakeFrameType DEF ReceiveRequest, TypeOK, rx
<1>3. rx_fifo' \in [Nodes -> Seq(Frame)]
  BY NodeNames, PopFrameType DEF ReceiveRequest, TypeOK
<1>4. RadioTypeOK'
  BY <1>2, <1>3 DEF ReceiveRequest, TypeOK, RadioTypeOK, NodeTypeOK
<1>5. CreditAfter(rx) \in Nat
  BY <1>1 DEF CreditAfter, Frame
<1>6. LocalHasDataAfter(rx) \in BOOLEAN
  BY <1>1, NodeNames, AfterFrameType DEF LocalHasDataAfter, LocalHasData, Mac, TypeOK
<1>7. SecondaryTypeOK'
  <2>1. CASE rx.type = "Invalid" \/ IsRefused(mac[Peer], rx)
    BY <2>1 DEF ReceiveRequest, rx, TypeOK, SecondaryTypeOK, secondaryVars
  <2>2. CASE ~(rx.type = "Invalid" \/ IsRefused(mac[Peer], rx))
    BY <1>1, <1>5, <1>6, <2>2 DEF ReceiveRequest, rx, SecondaryTypeOK, Frame
  <2> QED
    BY <2>1, <2>2
<1> QED
  BY <1>4, <1>7

LEMMA SendResetReplyType ==
  ASSUME TypeOK, SendResetReply
  PROVE  RadioTypeOK' /\ SecondaryTypeOK'
<1>1. ControlFrame("Reset", NoSeq, 0, 0) \in Frame
  BY ControlFrameType DEF FrameTypes, NoSeq
<1>2. rx_fifo' \in [Nodes -> Seq(Frame)]
  BY <1>1, NodeNames, TransmitType DEF SendResetReply, TypeOK
<1>3. RadioTypeOK'
  BY <1>2 DEF SendResetReply, TypeOK, RadioTypeOK
<1>4. SecondaryTypeOK'
  BY DEF SendResetReply, TypeOK, SecondaryTypeOK
<1> QED
  BY <1>3, <1>4

(* ChoosePeerResponse returns a frame, and DATA only for credit. *)
LEMMA ChoosePeerResponseType ==
  ASSUME TypeOK
  PROVE  /\ ChoosePeerResponse \in Frame
         /\ ChoosePeerResponse.type = "Data" => grant_budget_ > 0
<1>1. mac[Peer] \in Mac /\ mac[Peer].last_rx_seq_ \in Nat
  BY NodeNames DEF TypeOK, RadioTypeOK, Mac
<1>2. DataFrame(WithFragmentInFlight(mac[Peer])) \in Frame
  BY <1>1, WithFragmentInFlightType, DataFrameType
<1>3. \A type \in {"Ack", "Pending", "Invalid"}, pending \in {0, 1} :
         /\ ControlFrame(type, mac[Peer].last_rx_seq_, pending, 0) \in Frame
         /\ ControlFrame(type, mac[Peer].last_rx_seq_, pending, 0).type = type
  <2> TAKE type \in {"Ack", "Pending", "Invalid"}, pending \in {0, 1}
  <2>1. ControlFrame(type, mac[Peer].last_rx_seq_, pending, 0) \in Frame
    BY <1>1, ControlFrameType DEF FrameTypes
  <2>2. ControlFrame(type, mac[Peer].last_rx_seq_, pending, 0).type = type
    BY DEF ControlFrame
  <2> QED
    BY <2>1, <2>2
<1>4. CASE MaySendData
  BY <1>2, <1>3, <1>4 DEF ChoosePeerResponse, MaySendData
<1>5. CASE ~MaySendData
  BY <1>3, <1>5 DEF ChoosePeerResponse
<1> QED
  BY <1>4, <1>5

LEMMA SendReplyType ==
  ASSUME TypeOK, SendReply
  PROVE  RadioTypeOK' /\ SecondaryTypeOK'
<1> DEFINE tx == ChoosePeerResponse
<1>1. tx \in Frame /\ (tx.type = "Data" => grant_budget_ > 0)
  BY ChoosePeerResponseType
<1> HIDE DEF tx
<1>2. \E arrives \in BOOLEAN : Transmit(Peer, tx, arrives, arrives)
  BY DEF SendReply, tx
<1>3. rx_fifo' \in [Nodes -> Seq(Frame)]
  BY <1>1, <1>2, NodeNames, TransmitType DEF TypeOK
<1>4. mac' \in [Nodes -> Mac]
  BY WithFragmentInFlightType, NodeNames DEF SendReply, TypeOK, RadioTypeOK
<1>5. RadioTypeOK'
  BY <1>3, <1>4 DEF SendReply, TypeOK, RadioTypeOK
<1>6. grant_budget_' \in Nat
  BY <1>1 DEF SendReply, tx, TypeOK, SecondaryTypeOK
<1>7. granted_to_send_' \in BOOLEAN
  BY DEF SendReply
<1>8. SecondaryTypeOK'
  BY <1>6, <1>7 DEF SendReply, TypeOK, SecondaryTypeOK, FrameTypes
<1> QED
  BY <1>5, <1>8

LEMMA RestartSecondaryType ==
  ASSUME TypeOK, RestartSecondary
  PROVE  RadioTypeOK' /\ SecondaryTypeOK'
<1>1. RadioTypeOK'
  BY NodeNames, LoseProcessType DEF RestartSecondary, TypeOK
<1>2. SecondaryTypeOK'
  BY DEF RestartSecondary, SecondaryTypeOK, FrameTypes
<1> QED
  BY <1>1, <1>2
-----------------------------------------------------------------------------
LEMMA InitType == Init => TypeOK
<1> SUFFICES ASSUME Init PROVE TypeOK
  OBVIOUS
<1>1. RadioTypeOK
  BY ClearedMacType, EmptySeq DEF Init, RadioInit, RadioTypeOK
<1>2. /\ disconnect_backoff_us_ \in 1..MaxBackoff
      /\ retry_in_ \in 0..MaxBackoff
      /\ consecutive_local_data_frames_ \in 0..Uint8Max
      /\ current_poll_interval_us_ \in Nat
  BY ConstantTypes DEF Init, PrimaryInit
<1>3. PrimaryTypeOK
  BY <1>2 DEF Init, PrimaryInit, PrimaryTypeOK, FrameTypes
<1>4. SecondaryTypeOK
  BY DEF Init, SecondaryInit, SecondaryTypeOK, FrameTypes
<1> QED
  BY <1>1, <1>3, <1>4 DEF TypeOK

LEMMA StutterType ==
  ASSUME TypeOK, UNCHANGED vars
  PROVE  TypeOK'
<1>1. RadioTypeOK'
  BY DEF vars, radioVars, TypeOK, RadioTypeOK
<1>2. PrimaryTypeOK'
  BY DEF vars, primaryVars, linkVars, peerVars, exchangeVars, TypeOK, PrimaryTypeOK
<1>3. SecondaryTypeOK'
  BY DEF vars, secondaryVars, TypeOK, SecondaryTypeOK
<1> QED
  BY <1>1, <1>2, <1>3 DEF TypeOK

(* Every step of the four threads keeps every variable in its type. *)
LEMMA NextType ==
  ASSUME TypeOK, [Next]_vars
  PROVE  TypeOK'
<1>1. CASE PrimaryNext
  <2>1. RadioTypeOK' /\ PrimaryTypeOK'
    BY <1>1, AwaitRetryType, StartResetType, SendResetType, ReceiveResetReplyType,
       StartExchangeType, SendRequestType, ReceiveReplyType, ReceiveTimesOutType,
       RestartPrimaryType DEF PrimaryNext
  <2>2. SecondaryTypeOK'
    BY <1>1 DEF PrimaryNext, secondaryVars, TypeOK, SecondaryTypeOK
  <2> QED
    BY <2>1, <2>2 DEF TypeOK
<1>2. CASE SecondaryNext
  <2>1. RadioTypeOK' /\ SecondaryTypeOK'
    BY <1>2, StartReceiveType, ReceiveResetType, ReceiveRequestType, SendResetReplyType,
       SendReplyType, RestartSecondaryType DEF SecondaryNext
  <2>2. PrimaryTypeOK'
    BY <1>2 DEF SecondaryNext, primaryVars, linkVars, peerVars, exchangeVars,
                TypeOK, PrimaryTypeOK
  <2> QED
    BY <2>1, <2>2 DEF TypeOK
<1>3. CASE TunnelNext
  <2>1. RadioTypeOK'
    BY <1>3, TunnelThreadType DEF TunnelNext, TypeOK
  <2>2. PrimaryTypeOK'
    BY <1>3 DEF TunnelNext, primaryVars, linkVars, peerVars, exchangeVars,
                TypeOK, PrimaryTypeOK
  <2>3. SecondaryTypeOK'
    BY <1>3 DEF TunnelNext, secondaryVars, TypeOK, SecondaryTypeOK
  <2> QED
    BY <2>1, <2>2, <2>3 DEF TypeOK
<1> QED
  BY <1>1, <1>2, <1>3, StutterType DEF Next

(* The members of both classes, the radios and the histories keep to their *)
(* types in every run of the link, for every traffic and every value of    *)
(* the compile-time constants.                                             *)
THEOREM TypeCorrect == Spec => []TypeOK
<1>1. TypeOK /\ [Next]_vars => TypeOK'
  BY NextType
<1> QED
  BY InitType, <1>1, PTL DEF Spec
=============================================================================
