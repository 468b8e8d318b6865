---------------------- MODULE SecondaryRadioInterface ----------------------
(***************************************************************************)
(* The Peer: src/nerfnet/net/secondary_radio_interface.{h,cc}. It acts     *)
(* only when a frame reaches it. s_pc names the point where Run is:        *)
(*   "receive"  about to call Receive, the radio not yet listening         *)
(*   "wait"     Receive waits, without a timeout                           *)
(*   "reply"    the request is applied, the reply not yet built and sent   *)
(*   "reset"    HandleReset has cleared the session, not yet replied       *)
(***************************************************************************)
EXTENDS RadioInterface

VARIABLES
  s_pc,              (* where Run is, see above                            *)
  granted_to_send_,
  grant_budget_,
  s_local_has_data,  (* local_has_data of the running ChoosePeerResponse   *)
  answering          (* history: the type of the request that is applied   *)
                     (* and not yet answered, or "Invalid"                 *)

secondaryVars == <<s_pc, granted_to_send_, grant_budget_, s_local_has_data, answering>>

Peer == "secondary"

(* Receive turns the radio to listening and waits. *)
StartReceive ==
  /\ s_pc = "receive"
  /\ s_pc' = "wait"
  /\ listening' = [listening EXCEPT ![Peer] = TRUE]
  /\ UNCHANGED <<mac, rx_fifo, tun_read, session_out, consumed, delivered, cut,
                 granted_to_send_, grant_budget_, s_local_has_data, answering>>

(* Run receives a RESET: the first half of HandleReset. The radio's unread *)
(* frames stay.                                                            *)
ReceiveReset ==
  /\ s_pc = "wait"
  /\ rx_fifo[Peer] # <<>>
  /\ Head(rx_fifo[Peer]).type = "Reset"
  /\ PopFrame(Peer)
  /\ ClearSession(Peer)
  /\ granted_to_send_' = FALSE
  /\ grant_budget_' = 0
  /\ s_pc' = "reset"
  /\ UNCHANGED <<listening, s_local_has_data, answering>>

(* Mutant: credit stays until it is used up. *)
CreditKept(rx) == IF rx.type = "Grant" THEN rx.arg ELSE grant_budget_

(* The credit ApplyCoordinatorRequest leaves after a request it applies. *)
CreditAfter(rx) == IF rx.type = "Grant" THEN rx.arg ELSE 0

(* Mutant: the queue is looked at before the ACK of rx is taken. *)
LocalHasDataBefore(rx) == LocalHasData(mac[Peer])

LocalHasDataAfter(rx) == LocalHasData(AfterFrame(Peer, rx))

(* Run receives any other frame: ApplyCoordinatorRequest, and the first    *)
(* critical section of ChoosePeerResponse. A push of TunnelThread between  *)
(* the two has the effect of one before both. A refused frame is not       *)
(* answered, and the radio goes on listening.                              *)
ReceiveRequest ==
  /\ s_pc = "wait"
  /\ rx_fifo[Peer] # <<>>
  /\ LET rx == Head(rx_fifo[Peer])
     IN  /\ rx.type # "Reset"
         /\ TakeFrame(Peer, rx)
         /\ IF rx.type = "Invalid" \/ IsRefused(mac[Peer], rx)
            THEN UNCHANGED secondaryVars
            ELSE /\ grant_budget_' = CreditAfter(rx)
                 /\ granted_to_send_' = (CreditAfter(rx) > 0)
                 /\ s_local_has_data' = LocalHasDataAfter(rx)
                 /\ answering' = rx.type
                 /\ s_pc' = "reply"
  /\ PopFrame(Peer)
  /\ UNCHANGED listening

(* Send of HandleReset, whose failure is only counted. *)
SendResetReply ==
  /\ s_pc = "reset"
  /\ \E arrives \in BOOLEAN :
        Transmit(Peer, ControlFrame("Reset", NoSeq, 0, 0), arrives, arrives)
  /\ listening' = [listening EXCEPT ![Peer] = FALSE]
  /\ s_pc' = "receive"
  /\ UNCHANGED <<mac, tun_read, session_out, consumed, delivered, cut,
                 granted_to_send_, grant_budget_, s_local_has_data, answering>>

MaySendData == granted_to_send_ /\ grant_budget_ > 0 /\ s_local_has_data

(* ChoosePeerResponse; an "Invalid" frame stands for false. *)
ChoosePeerResponse ==
  LET ack == mac[Peer].last_rx_seq_
      m == WithFragmentInFlight(mac[Peer])
  IN  IF MaySendData
      THEN IF m.tx_in_flight_ THEN DataFrame(m) ELSE ControlFrame("Invalid", ack, 0, 0)
      ELSE IF s_local_has_data THEN ControlFrame("Pending", ack, 1, 0)
      ELSE ControlFrame("Ack", ack, 0, 0)

(* The rest of ChoosePeerResponse, and Send, whose failure is only counted. *)
SendReply ==
  /\ s_pc = "reply"
  /\ LET tx == ChoosePeerResponse
         credit == IF tx.type = "Data" THEN grant_budget_ - 1 ELSE grant_budget_
     IN  /\ mac' = IF tx.type = "Data"
                   THEN [mac EXCEPT ![Peer] = WithFragmentInFlight(@)] ELSE mac
         /\ grant_budget_' = credit
         /\ granted_to_send_' = (granted_to_send_ /\ credit > 0)
         /\ \E arrives \in BOOLEAN :
              /\ tx.type = "Invalid" => ~arrives
              /\ Transmit(Peer, tx, arrives, arrives)
         /\ listening' = IF tx.type = "Invalid" THEN listening
                         ELSE [listening EXCEPT ![Peer] = FALSE]
  /\ s_pc' = "receive"
  /\ answering' = "Invalid"
  /\ UNCHANGED <<tun_read, session_out, consumed, delivered, cut, s_local_has_data>>

(* The process ends at any point and is started again. *)
RestartSecondary ==
  /\ LoseProcess(Peer)
  /\ s_pc' = "receive"
  /\ granted_to_send_' = FALSE
  /\ grant_budget_' = 0
  /\ s_local_has_data' = FALSE
  /\ answering' = "Invalid"

SecondaryInit ==
  /\ s_pc = "receive"
  /\ granted_to_send_ = FALSE
  /\ grant_budget_ = 0
  /\ s_local_has_data = FALSE
  /\ answering = "Invalid"

SecondaryTypeOK ==
  /\ s_pc \in {"receive", "wait", "reply", "reset"}
  /\ granted_to_send_ \in BOOLEAN
  /\ grant_budget_ \in Nat
  /\ s_local_has_data \in BOOLEAN
  /\ answering \in FrameTypes
=============================================================================
