------------------------------- MODULE RxReady -------------------------------
(***************************************************************************)
(* How a node waits for a frame: Receive and WaitForRxReady of             *)
(* src/nerfnet/net/radio_interface.cc, on the GPIO line that InitializeIrq *)
(* claimed or, without one, by polling. The radio pulls its IRQ pin low    *)
(* when a frame comes in or one has been sent; the kernel queues a falling *)
(* edge only when the pin was high, and only while its queue has room. So  *)
(* the edges are neither one per frame nor gone once the frame is read.    *)
(*                                                                         *)
(* Time is counted in ticks of the 50 us that a polling thread sleeps, and *)
(* passes only where the thread sleeps or waits.                           *)
(***************************************************************************)
EXTENDS IrqLine

CONSTANTS
  Timeouts,      (* the values of timeout_us, in ticks; 0: no limit          *)
  RxFifoDepth,   (* frames the radio holds unread: 3 on the nRF24L01         *)
  MaxEdges       (* edges the kernel queues for the line: 16                 *)

ASSUME RxReadyAssumption ==
  /\ Timeouts \in SUBSET Nat
  /\ RxFifoDepth \in Nat \ {0}
  /\ MaxEdges \in Nat \ {0}

VARIABLES
  unread,        (* frames in the radio's receive FIFO                       *)
  pin_low,       (* the radio holds its IRQ pin low                          *)
  listening,     (* startListening called since stopListening                *)
  edges,         (* falling edges queued by the kernel                       *)
  timeout_us,    (* the argument of the last Receive                         *)
  elapsed,       (* ticks since that call, for the bounded ones              *)
  wait_left,     (* ticks until gpiod_line_event_wait gives up               *)
  result,        (* what the last Receive returned                           *)
  line_failed    (* history: a requested line failed during that call        *)

chipVars == <<unread, pin_low, listening, edges>>
callVars == <<timeout_us, elapsed, wait_left, result, line_failed>>
vars == <<irqVars, pc, chipVars, callVars>>

Waiting == pc \in {"check", "clock", "sleep", "wait", "read_event"}

-----------------------------------------------------------------------------
(* The radio and the kernel.                                               *)

(* Mutant: the kernel queues every edge. *)
QueueEveryEdge == edges' = IF requested /\ ~pin_low THEN edges + 1 ELSE edges

(* The pin goes low: an edge, if it was high and somebody asked for edges. *)
QueueEdge ==
  edges' = IF requested /\ ~pin_low THEN Min({edges + 1, MaxEdges}) ELSE edges

(* A frame of the other node is acknowledged and put into the FIFO.        *)
FrameArrives ==
  /\ listening
  /\ unread < RxFifoDepth
  /\ unread' = unread + 1
  /\ QueueEdge
  /\ pin_low' = TRUE
  /\ UNCHANGED <<irqVars, pc, listening, callVars>>

-----------------------------------------------------------------------------
(* Other calls of the thread that touch the radio.                         *)

(* Send: stopListening, and radio_.write, which pulls the pin low at the   *)
(* end of the transmission, sent or not, and clears the radio's flags.     *)
Send ==
  /\ pc = "idle"
  /\ listening' = FALSE
  /\ QueueEdge
  /\ pin_low' = FALSE
  /\ UNCHANGED <<irqVars, pc, unread, callVars>>

(* radio_.flush_rx, at both ends of ConnectionReset: the chip may go on    *)
(* listening, and its flags stay.                                          *)
FlushRx ==
  /\ pc = "idle"
  /\ unread' = 0
  /\ UNCHANGED <<irqVars, pc, pin_low, listening, edges, callVars>>

-----------------------------------------------------------------------------
(* Receive.                                                                *)

Return(r) == pc' = "idle" /\ result' = r

(* Mutant: the thread waits for an edge before it asks the radio.          *)
StartReceiveWaitingFirst ==
  /\ pc = "idle"
  /\ listening' = TRUE
  /\ pin_low' = FALSE
  /\ timeout_us' \in Timeouts
  /\ elapsed' = 0
  /\ wait_left' = timeout_us'
  /\ result' = "None"
  /\ line_failed' = FALSE
  /\ pc' = IF irq_line_ = -1 THEN "check" ELSE "wait"
  /\ UNCHANGED <<irqVars, unread, edges>>

(* startListening clears the radio's flags, so the pin goes high even if   *)
(* frames are unread.                                                      *)
StartReceive ==
  /\ pc = "idle"
  /\ listening' = TRUE
  /\ pin_low' = FALSE
  /\ timeout_us' \in Timeouts
  /\ elapsed' = 0
  /\ wait_left' = 0
  /\ result' = "None"
  /\ line_failed' = FALSE
  /\ pc' = "check"
  /\ UNCHANGED <<irqVars, unread, edges>>

(* Mutant: every wait is given the whole timeout. *)
WholeTimeout == timeout_us

(* remaining_us of the deadline, which is fixed when the call begins. *)
Remaining == timeout_us - elapsed

(* radio_.available answers, and Receive reads: which clears the flag.     *)
FindFrame ==
  /\ pc = "check"
  /\ unread > 0
  /\ unread' = unread - 1
  /\ pin_low' = FALSE
  /\ Return("Success")
  /\ UNCHANGED <<irqVars, listening, edges, timeout_us, elapsed, wait_left, line_failed>>

(* Mutant: zero is a limit like any other. *)
PastDeadlineOfZero == elapsed >= timeout_us

(* The poll compares the sum with the clock by <, the IRQ wait by >=. *)
PastDeadline ==
  timeout_us # 0 /\ IF irq_line_ = -1 THEN timeout_us < elapsed ELSE elapsed >= timeout_us

(* radio_.available says no. The thread does not look again before it has  *)
(* tested the clock, and waited if there is time; a frame may come.        *)
FindNothing ==
  /\ pc = "check"
  /\ unread = 0
  /\ pc' = "clock"
  /\ UNCHANGED <<irqVars, chipVars, callVars>>

TestClock ==
  /\ pc = "clock"
  /\ IF PastDeadline
     THEN Return("Timeout") /\ UNCHANGED wait_left
     ELSE /\ pc' = IF irq_line_ = -1 THEN "sleep" ELSE "wait"
          /\ wait_left' = IF timeout_us = 0 THEN 0 ELSE Remaining
          /\ UNCHANGED result
  /\ UNCHANGED <<irqVars, chipVars, timeout_us, elapsed, line_failed>>

(* SleepUs(50) of the poll. *)
Sleep ==
  /\ pc = "sleep"
  /\ pc' = "check"
  /\ elapsed' = IF timeout_us = 0 THEN elapsed ELSE elapsed + 1
  /\ UNCHANGED <<irqVars, chipVars, timeout_us, wait_left, result, line_failed>>

(* gpiod_line_event_wait: time passes while no edge is queued.             *)
Tick ==
  /\ pc = "wait" /\ requested
  /\ edges = 0
  /\ wait_left > 0
  /\ wait_left' = wait_left - 1
  /\ elapsed' = elapsed + 1
  /\ UNCHANGED <<irqVars, pc, chipVars, timeout_us, result, line_failed>>

WaitTimesOut ==
  /\ pc = "wait" /\ requested
  /\ edges = 0
  /\ timeout_us # 0 /\ wait_left = 0
  /\ Return("Timeout")
  /\ UNCHANGED <<irqVars, chipVars, timeout_us, elapsed, wait_left, line_failed>>

WaitReturns ==
  /\ pc = "wait" /\ requested
  /\ edges > 0
  /\ pc' = "read_event"
  /\ UNCHANGED <<irqVars, chipVars, callVars>>

ReadEvent ==
  /\ pc = "read_event"
  /\ edges' = edges - 1
  /\ pc' = "check"
  /\ UNCHANGED <<irqVars, unread, pin_low, listening, callVars>>

(* EINTR, from the wait or from the read of the event: try again. *)
Interrupted ==
  /\ pc \in {"wait", "read_event"} /\ requested
  /\ pc' = "check"
  /\ UNCHANGED <<irqVars, chipVars, callVars>>

(* Any other error, and what a line without a request always gives.        *)
LineFails ==
  /\ pc \in {"wait", "read_event"}
  /\ Return("Timeout")
  /\ line_failed' = requested
  /\ UNCHANGED <<irqVars, chipVars, timeout_us, elapsed, wait_left>>

WaitForRxReady ==
  \/ FindFrame \/ FindNothing \/ TestClock \/ Sleep \/ Tick \/ WaitTimesOut
  \/ WaitReturns \/ ReadEvent \/ Interrupted \/ LineFails

-----------------------------------------------------------------------------
Init ==
  /\ IrqInit
  /\ unread = 0
  /\ pin_low = FALSE
  /\ listening = FALSE
  /\ edges = 0
  /\ timeout_us = 0
  /\ elapsed = 0
  /\ wait_left = 0
  /\ result = "None"
  /\ line_failed = FALSE

Next ==
  \/ InitializeIrq /\ UNCHANGED <<chipVars, callVars>>
  \/ StartReceive
  \/ WaitForRxReady
  \/ Send
  \/ FlushRx
  \/ FrameArrives

Spec == Init /\ [][Next]_vars

(* Once a call has begun the thread keeps running. *)
FairSpec == Spec /\ WF_vars(WaitForRxReady)

-----------------------------------------------------------------------------
(* Every variable keeps to its type; irq_chip_ and irq_line_ name a chip   *)
(* of the board and a line of that chip, or nothing.                       *)
TypeOK ==
  /\ chips \in Boards
  /\ sysfs \in BOOLEAN
  /\ irq_pin_ \in Pins
  /\ irq_chip_ \in 0..Len(chips)
  /\ irq_line_ # -1 => /\ irq_chip_ # 0
                       /\ irq_line_ \in 0..(chips[irq_chip_].lines - 1)
  /\ requested \in BOOLEAN
  /\ unread \in 0..RxFifoDepth
  /\ pin_low \in BOOLEAN
  /\ listening \in BOOLEAN
  /\ edges \in 0..MaxEdges
  /\ timeout_us \in Timeouts \cup {0}
  /\ elapsed \in Nat
  /\ wait_left \in Nat
  /\ result \in {"None", "Success", "Timeout"}
  /\ line_failed \in BOOLEAN

(* No edge is lost between radio_.available and the wait: a thread that    *)
(* waits while a frame is unread has an edge that will wake it. Frames may *)
(* come before or after the flags are cleared, edges of earlier frames and *)
(* of the node's own transmissions stay queued, and a full queue drops     *)
(* new ones.                                                               *)
NeverSleepsOnFrame == pc = "wait" /\ unread > 0 => edges > 0

(* Receive says Timeout only when the time has passed or the line failed;  *)
(* a constructor that could not claim the line has left nothing behind     *)
(* that makes every wait end in an error.                                  *)
NoEarlyTimeout ==
  result = "Timeout" => line_failed \/ (timeout_us # 0 /\ elapsed >= timeout_us)

(* Edges that bring no frame do not prolong the call: with the line it     *)
(* takes timeout_us, and by polling at most one sleep more.                *)
ReturnsInTime ==
  timeout_us # 0 => elapsed <= IF irq_line_ = -1 THEN timeout_us + 1 ELSE timeout_us

(* The gap in which a frame comes too late: the radio has said no for the  *)
(* last time, and the time of the call has passed.                         *)
LookedForTheLastTime == pc = "clock" /\ PastDeadline

(* A Receive that reports a timeout leaves a frame unread only if it came  *)
(* in that gap, or the line failed. The event wait, after whose timeout    *)
(* the code does not look again, ends with the FIFO empty.                 *)
GivesUpOnlyOnEmpty ==
  [][result # "Timeout" /\ result' = "Timeout" =>
       unread = 0 \/ line_failed' \/ LookedForTheLastTime]_vars

(* A frame that comes to a thread in Receive, before or after any look at  *)
(* the radio but not in that gap, is returned by the call, though a call   *)
(* without a limit has nothing but an edge to wake it.                     *)
ReadsWhatArrived ==
  Waiting /\ ~LookedForTheLastTime /\ unread > 0
    ~> pc = "idle" /\ (result = "Success" \/ line_failed)
=============================================================================
