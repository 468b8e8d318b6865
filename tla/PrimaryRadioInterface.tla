----------------------- MODULE PrimaryRadioInterface -----------------------
(***************************************************************************)
(* The Coordinator: src/nerfnet/net/primary_radio_interface.{h,cc}.        *)
(*                                                                         *)
(* One iteration of Run is cut at the points where the other threads and   *)
(* the other node can act: before it sends, and while it waits for the     *)
(* reply. Everything between two cuts is one step. p_pc names the cut:     *)
(*   "run"         at the top of the loop, or asleep there                 *)
(*   "retry"       there again because ConnectionReset has failed          *)
(*   "reset"       ConnectionReset has cleared the session, not yet sent   *)
(*   "reset_wait"  ConnectionReset waits for the reply                     *)
(*   "exchange"    PerformExchange has looked at the queue, not yet sent   *)
(*   "wait"        PerformExchange waits for the reply                     *)
(***************************************************************************)
EXTENDS RadioInterface

CONSTANTS
  BurstGrant,             (* kDefaultBurstGrant: 3                           *)
  FairDataBurstLimit,     (* kFairDataBurstLimit: 2                          *)
  FailureThreshold,       (* kDisconnectFailureThreshold: 5                  *)
  InitialBackoff,         (* kInitialDisconnectBackoffUs                     *)
  MaxBackoff,             (* kMaxDisconnectBackoffUs                         *)
  PollInterval,           (* poll_interval_us_, from the command line        *)
  IdlePollInterval,       (* kIdlePollIntervalUs                             *)
  ActivePollInterval,     (* kActivePollIntervalUs                           *)
  MaxPollInterval,        (* the 1000000 of HandleTransactionFailure         *)
  LateReplies,            (* the peer may be busy with an earlier frame, or  *)
                          (* its reply just in, when a wait times out, and   *)
                          (* busy when the next request is begun             *)
  LateAtReset             (* it may owe replies to RESETs of one handshake   *)
                          (* when the next handshake begins                  *)

ASSUME PrimaryAssumption ==
  /\ BurstGrant \in Nat \ {0}
  /\ FairDataBurstLimit \in Nat
  /\ FailureThreshold \in Nat \ {0}
  /\ InitialBackoff \in Nat \ {0}
  /\ MaxBackoff \in Nat
  /\ InitialBackoff <= MaxBackoff
  /\ {PollInterval, IdlePollInterval, ActivePollInterval, MaxPollInterval} \subseteq Nat
  /\ LateReplies \in BOOLEAN
  /\ LateAtReset \in BOOLEAN

VARIABLES
  p_pc,                           (* where Run is, see above               *)
  state_,                         (* CoordinatorState                      *)
  connection_reset_required_,
  peer_has_pending_,
  consecutive_local_data_frames_,
  disconnected_,
  send_fail_streak_,
  timeout_fail_streak_,
  disconnect_backoff_us_,
  retry_in_,                      (* next_retry_time_us_ - now, at least 0 *)
  current_poll_interval_us_,
  p_local_has_data,               (* local_has_data of the running exchange *)
  tx_type                         (* the type of the frame it sent         *)

linkVars == <<state_, connection_reset_required_, disconnected_, send_fail_streak_,
              timeout_fail_streak_, disconnect_backoff_us_, retry_in_>>
peerVars == <<peer_has_pending_, consecutive_local_data_frames_>>
exchangeVars == <<p_local_has_data, tx_type>>
primaryVars == <<p_pc, linkVars, peerVars, exchangeVars, current_poll_interval_us_>>

Self == "primary"

-----------------------------------------------------------------------------
(* Failures and successes of a transaction.                                *)

(* Mutant: the doubled value is not limited. *)
DoubledWithoutCap(x, cap) == 2 * x

Doubled(x, cap) == Least(2 * x, cap)

(* Mutant: a failure to send clears its own streak. *)
SendStreakCleared(failure) ==
  IF failure = "Protocol" THEN send_fail_streak_ + 1 ELSE 0

SendStreakAfter(failure) ==
  IF failure = "Timeout" THEN 0 ELSE send_fail_streak_ + 1

TimeoutStreakAfter(failure) ==
  IF failure = "Send" THEN 0 ELSE timeout_fail_streak_ + 1

(* Mutant: the link is given up one failure too late. *)
DisconnectLate(send, timeout) ==
  \/ send > FailureThreshold
  \/ timeout > FailureThreshold + 2
  \/ send + timeout > FailureThreshold + 3

DisconnectNow(send, timeout) ==
  \/ send >= FailureThreshold
  \/ timeout >= FailureThreshold + 2
  \/ send + timeout >= FailureThreshold + 3

(* Mutant: the session is not marked for a reset. *)
GiveUpWithoutReset ==
  /\ disconnected_' = TRUE
  /\ state_' = "ResetSync"
  /\ retry_in_' = disconnect_backoff_us_
  /\ UNCHANGED <<connection_reset_required_, current_poll_interval_us_>>

GiveUp ==
  /\ disconnected_' = TRUE
  /\ connection_reset_required_' = TRUE
  /\ state_' = "ResetSync"
  /\ retry_in_' = disconnect_backoff_us_
  /\ UNCHANGED current_poll_interval_us_

(* HandleTransactionFailure. state is what state_ would be without it. *)
HandleTransactionFailure(failure, state) ==
  LET send == SendStreakAfter(failure)
      timeout == TimeoutStreakAfter(failure)
  IN  /\ send_fail_streak_' = send
      /\ timeout_fail_streak_' = timeout
      /\ UNCHANGED disconnect_backoff_us_
      /\ IF DisconnectNow(send, timeout)
         THEN GiveUp
         ELSE /\ current_poll_interval_us_' =
                    Doubled(current_poll_interval_us_, MaxPollInterval)
              /\ state_' = state
              /\ UNCHANGED <<disconnected_, connection_reset_required_, retry_in_>>

(* Mutant: the link stays disconnected. *)
SuccessKeepingDisconnected ==
  /\ send_fail_streak_' = 0
  /\ timeout_fail_streak_' = 0
  /\ disconnect_backoff_us_' = InitialBackoff
  /\ retry_in_' = 0
  /\ UNCHANGED <<disconnected_, current_poll_interval_us_>>

(* The assignments of Run after a successful reset or exchange. *)
HandleSuccess ==
  /\ send_fail_streak_' = 0
  /\ timeout_fail_streak_' = 0
  /\ disconnected_' = FALSE
  /\ disconnect_backoff_us_' = InitialBackoff
  /\ retry_in_' = 0
  /\ UNCHANGED current_poll_interval_us_

-----------------------------------------------------------------------------
(* Run: waiting for the next retry, and the sleep before an exchange. The  *)
(* argument peerIsBusy of what follows a sleep or a timeout says that the  *)
(* peer has not yet answered all that reached it, or not yet turned back   *)
(* to listening, and peerOwesReset that a RESET is among what it has not   *)
(* answered; how long it takes is for the constants to say.                *)

AtTop == p_pc \in {"run", "retry"}

(* The sleeps of 1 ms while now_us < next_retry_time_us_. *)
AwaitRetry ==
  /\ AtTop
  /\ disconnected_
  /\ retry_in_ > 0
  /\ retry_in_' = retry_in_ - 1
  /\ UNCHANGED <<radioVars, p_pc, state_, connection_reset_required_, disconnected_,
                 send_fail_streak_, timeout_fail_streak_, disconnect_backoff_us_,
                 peerVars, exchangeVars, current_poll_interval_us_>>

SleepForPoll ==
  current_poll_interval_us_' =
    IF state_ = "Idle" /\ ~peer_has_pending_
    THEN IdlePollInterval ELSE ActivePollInterval

-----------------------------------------------------------------------------
(* ConnectionReset.                                                        *)

(* No session is open: the process is new, or it has cleared the old one   *)
(* and repeats ConnectionReset until that is answered.                     *)
InHandshake == connection_reset_required_ /\ (disconnected_ => p_pc # "run")

(* A handshake that is under way is repeated at once, whatever is unread   *)
(* or unanswered at the peer. One that follows a lost session begins after *)
(* the initial backoff.                                                    *)
StartReset(peerIsBusy, peerOwesReset) ==
  /\ AtTop
  /\ peerIsBusy => LateReplies
  /\ peerOwesReset /\ ~InHandshake => LateAtReset
  /\ \/ disconnected_ /\ retry_in_ = 0 /\ UNCHANGED current_poll_interval_us_
     \/ ~disconnected_ /\ connection_reset_required_ /\ SleepForPoll
  /\ FlushRx(Self)
  /\ ClearSession(Self)
  /\ peer_has_pending_' = FALSE
  /\ consecutive_local_data_frames_' = 0
  /\ p_pc' = "reset"
  /\ UNCHANGED <<listening, linkVars, exchangeVars>>

(* Mutant: the backoff is doubled before it is used. *)
BackOffDoubledFirst ==
  /\ retry_in_' = Doubled(disconnect_backoff_us_, MaxBackoff)
  /\ disconnect_backoff_us_' = Doubled(disconnect_backoff_us_, MaxBackoff)

BackOff ==
  /\ retry_in_' = disconnect_backoff_us_
  /\ disconnect_backoff_us_' = Doubled(disconnect_backoff_us_, MaxBackoff)

(* What Run does when ConnectionReset returns false. *)
ResetFailed ==
  /\ p_pc' = "retry"
  /\ IF disconnected_
     THEN /\ BackOff
          /\ UNCHANGED <<state_, connection_reset_required_, disconnected_,
                         send_fail_streak_, timeout_fail_streak_,
                         current_poll_interval_us_>>
     ELSE HandleTransactionFailure("Protocol", state_)

SendReset ==
  /\ p_pc = "reset"
  /\ \E ok, arrives \in BOOLEAN :
        /\ Transmit(Self, ControlFrame("Reset", NoSeq, 0, 0), ok, arrives)
        /\ listening' = [listening EXCEPT ![Self] = ok]
        /\ IF ok
           THEN p_pc' = "reset_wait" /\ UNCHANGED <<linkVars, current_poll_interval_us_>>
           ELSE ResetFailed
  /\ UNCHANGED <<mac, tun_read, session_out, consumed, delivered, cut, peerVars, exchangeVars>>

(* Mutant: the reply may be to a frame of the old session. *)
IsAnyReply(rx) == rx.type # "Invalid"

(* It may be to another RESET than the last one: nothing tells them apart. *)
IsResetReply(rx) == rx.type = "Reset"

ReceiveResetReply ==
  /\ p_pc = "reset_wait"
  /\ rx_fifo[Self] # <<>>
  /\ IF IsResetReply(Head(rx_fifo[Self]))
     THEN /\ FlushRx(Self)
          /\ HandleSuccess
          /\ connection_reset_required_' = FALSE
          /\ state_' = "Idle"
          /\ p_pc' = "run"
     ELSE PopFrame(Self) /\ ResetFailed
  /\ UNCHANGED <<mac, listening, tun_read, session_out, consumed, delivered, cut,
                 peerVars, exchangeVars>>

-----------------------------------------------------------------------------
(* PerformExchange.                                                        *)

(* The first critical section of ChooseCoordinatorTxFrame. *)
StartExchange(peerIsBusy) ==
  /\ AtTop
  /\ peerIsBusy => LateReplies
  /\ ~disconnected_
  /\ ~connection_reset_required_
  /\ SleepForPoll
  /\ p_local_has_data' = LocalHasData(mac[Self])
  /\ p_pc' = "exchange"
  /\ UNCHANGED <<radioVars, linkVars, peerVars, tx_type>>

GrantFrame ==
  ControlFrame("Grant", mac[Self].last_rx_seq_, IF p_local_has_data THEN 1 ELSE 0,
               BurstGrant)

(* The peer has waited while this end sent its share of DATA. *)
PeerIsOwedGrant ==
  peer_has_pending_ /\ consecutive_local_data_frames_ >= FairDataBurstLimit

(* ChooseCoordinatorTxFrame; an "Invalid" frame stands for false. *)
ChooseCoordinatorTxFrame ==
  LET ack == mac[Self].last_rx_seq_
      m == WithFragmentInFlight(mac[Self])
  IN  CASE state_ = "ResetSync" -> ControlFrame("Reset", ack, 0, 0)
        [] state_ \in {"IssueGrant", "ActiveRx"} -> GrantFrame
        [] state_ = "Idle" /\ ~p_local_has_data -> ControlFrame("Pending", ack, 0, 0)
        [] state_ = "Idle" /\ p_local_has_data /\ PeerIsOwedGrant -> GrantFrame
        [] OTHER -> IF m.tx_in_flight_ THEN DataFrame(m)
                    ELSE ControlFrame("Invalid", ack, 0, 0)

(* The rest of ChooseCoordinatorTxFrame, and Send. *)
SendRequest ==
  /\ p_pc = "exchange"
  /\ LET tx == ChooseCoordinatorTxFrame
     IN  /\ mac' = IF tx.type = "Data"
                   THEN [mac EXCEPT ![Self] = WithFragmentInFlight(@)] ELSE mac
         /\ tx_type' = tx.type
         /\ \E ok, arrives \in BOOLEAN :
              /\ tx.type = "Invalid" => ~ok /\ ~arrives
              /\ Transmit(Self, tx, ok, arrives)
              /\ listening' = IF tx.type = "Invalid" THEN listening
                              ELSE [listening EXCEPT ![Self] = ok]
              /\ IF ok
                 THEN p_pc' = "wait" /\ UNCHANGED <<linkVars, current_poll_interval_us_>>
                 ELSE /\ p_pc' = "run"
                      /\ HandleTransactionFailure(
                           IF tx.type = "Invalid" THEN "Protocol" ELSE "Send", state_)
  /\ UNCHANGED <<tun_read, session_out, consumed, delivered, cut, peerVars, p_local_has_data>>

(* ApplyPeerResponse returns true. *)
IsApplied(rx) ==
  /\ rx.type \in {"Ack", "Pending", "Data"}
  /\ ~IsRefused(mac[Self], rx)

(* Mutant: the PENDING of the peer is forgotten. *)
StateAfterIgnoringPending(rx) ==
  CASE rx.type \in {"Ack", "Pending"} -> "Idle"
    [] rx.type = "Data" -> IF rx.pending # 0 THEN "ActiveRx" ELSE "Idle"
    [] OTHER -> state_

StateAfter(rx) ==
  CASE rx.type = "Ack" -> IF rx.pending # 0 THEN "IssueGrant" ELSE "Idle"
    [] rx.type = "Pending" -> "IssueGrant"
    [] rx.type = "Data" -> IF rx.pending # 0 THEN "ActiveRx" ELSE "Idle"
    [] OTHER -> state_

DataFramesAfter(rx) ==
  IF IsApplied(rx) /\ tx_type = "Data" /\ rx.type # "Data"
  THEN Least(consecutive_local_data_frames_ + 1, Uint8Max) ELSE 0

(* Receive, ApplyPeerResponse, and what Run makes of the result. The reply *)
(* read is the oldest frame in the radio, be it an answer to this request  *)
(* or to an earlier one that was given up.                                 *)
ReceiveReply ==
  /\ p_pc = "wait"
  /\ rx_fifo[Self] # <<>>
  /\ LET rx == Head(rx_fifo[Self])
     IN  /\ TakeFrame(Self, rx)
         /\ peer_has_pending_' = IF IsRefused(mac[Self], rx) THEN peer_has_pending_
                                 ELSE rx.pending # 0
         /\ consecutive_local_data_frames_' = DataFramesAfter(rx)
         /\ IF IsApplied(rx)
            THEN /\ HandleSuccess
                 /\ state_' = StateAfter(rx)
                 /\ UNCHANGED connection_reset_required_
            ELSE HandleTransactionFailure("Protocol", state_)
  /\ PopFrame(Self)
  /\ p_pc' = "run"
  /\ UNCHANGED <<listening, exchangeVars>>

-----------------------------------------------------------------------------
(* Receive gives up: its 100 ms had passed and nothing was readable at its *)
(* last look, though a frame may have come in since. It leaves the radio   *)
(* listening, so a late reply is still taken in.                           *)

ReceiveTimesOut(peerIsBusy) ==
  /\ p_pc \in {"wait", "reset_wait"}
  /\ peerIsBusy \/ rx_fifo[Self] # <<>> => LateReplies
  /\ IF p_pc = "wait"
     THEN p_pc' = "run" /\ HandleTransactionFailure("Timeout", state_)
     ELSE ResetFailed
  /\ UNCHANGED <<radioVars, peerVars, exchangeVars>>

(* The process ends at any point and is started again. *)
RestartPrimary(peerOwesReset) ==
  /\ peerOwesReset /\ ~InHandshake => LateAtReset
  /\ LoseProcess(Self)
  /\ p_pc' = "run"
  /\ state_' = "ResetSync"
  /\ connection_reset_required_' = TRUE
  /\ peer_has_pending_' = FALSE
  /\ consecutive_local_data_frames_' = 0
  /\ disconnected_' = FALSE
  /\ send_fail_streak_' = 0
  /\ timeout_fail_streak_' = 0
  /\ disconnect_backoff_us_' = InitialBackoff
  /\ retry_in_' = 0
  /\ current_poll_interval_us_' = PollInterval
  /\ p_local_has_data' = FALSE
  /\ tx_type' = "Invalid"

PrimaryInit ==
  /\ p_pc = "run"
  /\ state_ = "ResetSync"
  /\ connection_reset_required_ = TRUE
  /\ peer_has_pending_ = FALSE
  /\ consecutive_local_data_frames_ = 0
  /\ disconnected_ = FALSE
  /\ send_fail_streak_ = 0
  /\ timeout_fail_streak_ = 0
  /\ disconnect_backoff_us_ = InitialBackoff
  /\ retry_in_ = 0
  /\ current_poll_interval_us_ = PollInterval
  /\ p_local_has_data = FALSE
  /\ tx_type = "Invalid"

PrimaryTypeOK ==
  /\ p_pc \in {"run", "retry", "reset", "reset_wait", "exchange", "wait"}
  /\ state_ \in {"ResetSync", "Idle", "IssueGrant", "ActiveRx"}
  /\ connection_reset_required_ \in BOOLEAN
  /\ peer_has_pending_ \in BOOLEAN
  /\ consecutive_local_data_frames_ \in 0..Uint8Max
  /\ disconnected_ \in BOOLEAN
  /\ send_fail_streak_ \in Nat
  /\ timeout_fail_streak_ \in Nat
  /\ disconnect_backoff_us_ \in 1..MaxBackoff
  /\ retry_in_ \in 0..MaxBackoff
  /\ current_poll_interval_us_ \in Nat
  /\ p_local_has_data \in BOOLEAN
  /\ tx_type \in FrameTypes
=============================================================================
