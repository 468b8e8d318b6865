---------------------------- MODULE RxReadyProofs ----------------------------
(***************************************************************************)
(* What holds of RxReady for every board, pin, timeout and size of the     *)
(* queues: which line is claimed, and that a thread that waits for an edge *)
(* does not sleep on a frame.                                              *)
(***************************************************************************)
EXTENDS RxReady, FiniteSetTheorems, TLAPS

(* A set of naturals that is not empty has a least member, since the       *)
(* intervals that end in it have a minimal one.                            *)
LEMMA MinIsLeast ==
  ASSUME NEW S \in SUBSET Nat, S # {}
  PROVE  Min(S) \in S /\ \A y \in S : Min(S) <= y
<1> DEFINE Below == {0..i : i \in S}
<1>1. Below \in SUBSET FiniteSubsetsOf(Nat) /\ Below # {}
  <2>1. \A i \in Nat : IsFiniteSet(0..i) /\ 0..i \in SUBSET Nat
    BY FS_Interval
  <2>2. \A i \in S : 0..i \in FiniteSubsetsOf(Nat)
    BY <2>1 DEF FiniteSubsetsOf
  <2> QED
    BY <2>2
<1>2. PICK b \in Below : \A c \in Below : <<c, b>> \notin StrictSubsetOrdering(Nat)
  BY <1>1, FS_StrictSubsetOrderingWellFounded, WFMin
<1>3. PICK x \in S : b = 0..x
  BY <1>2
<1>4. ASSUME NEW y \in S PROVE x <= y
  <2> SUFFICES ASSUME y < x PROVE FALSE
    OBVIOUS
  <2>1. 0..y \in Below
    OBVIOUS
  <2>2. 0..y \in SUBSET Nat /\ 0..x \in SUBSET Nat /\ 0..y \subseteq 0..x
    OBVIOUS
  <2>3. x \in 0..x /\ x \notin 0..y
    OBVIOUS
  <2>4. <<0..y, 0..x>> \in StrictSubsetOrdering(Nat)
    BY <2>2, <2>3, Zenon DEF StrictSubsetOrdering
  <2> QED
    BY <2>1, <2>4, <1>2, <1>3
<1> HIDE DEF Below
<1> QED
  BY <1>4 DEF Min

(* The search finds something whenever there is something to be found. *)
LEMMA EarliestIsOne ==
  ASSUME NEW n \in Nat, NEW S \in SUBSET (1..n)
  PROVE  IF S = {} THEN Earliest(S) = 0 ELSE Earliest(S) \in S
BY MinIsLeast DEF Earliest

-----------------------------------------------------------------------------
(* Boards.                                                                 *)

LEMMA BoardType ==
  ASSUME NEW board \in Boards
  PROVE  /\ Len(board) \in Nat /\ DOMAIN board = 1..Len(board)
         /\ \A i \in DOMAIN board : /\ board[i].label \in Labels
                                    /\ board[i].lines \in Nat \ {0}
                                    /\ board[i].base \in Nat
<1>1. board \in Seq(Chip)
  BY IrqAssumption
<1>2. \A i \in DOMAIN board : board[i] \in Chip
  BY <1>1
<1> QED
  BY <1>1, <1>2 DEF Chip

(* At most one chip has a global number. *)
LEMMA OneOwner ==
  ASSUME chips \in Boards, NEW pin \in Int,
         NEW i \in DOMAIN chips, NEW j \in DOMAIN chips,
         pin \in Numbers(chips[i]), pin \in Numbers(chips[j])
  PROVE  i = j
<1>1. /\ i < j => \/ chips[i].base + chips[i].lines <= chips[j].base
                  \/ chips[j].base + chips[j].lines <= chips[i].base
      /\ j < i => \/ chips[j].base + chips[j].lines <= chips[i].base
                  \/ chips[i].base + chips[i].lines <= chips[j].base
  BY IrqAssumption
<1>2. \A k \in DOMAIN chips : chips[k].base \in Nat /\ chips[k].lines \in Nat
  BY BoardType
<1>3. /\ chips[i].base <= pin /\ pin < chips[i].base + chips[i].lines
      /\ chips[j].base <= pin /\ pin < chips[j].base + chips[j].lines
  BY <1>2 DEF Numbers
<1>4. i \in Nat /\ j \in Nat
  BY BoardType
<1> QED
  BY <1>1, <1>2, <1>3, <1>4

(* The chip that a global number resolves to has the owner's label. *)
LEMMA GlobalTarget ==
  ASSUME chips \in Boards, NEW pin \in Pins, NEW i \in DOMAIN chips,
         pin \in Numbers(chips[i])
  PROVE  LET t == ResolveIrqTargetFromGlobal(pin)
         IN  /\ t.chip \in DOMAIN chips
             /\ t.offset = pin - chips[i].base
             /\ t.offset \in Nat
             /\ t # NoTarget
             /\ chips[t.chip].label = chips[i].label
             /\ chips[t.chip].lines = chips[i].lines
<1> DEFINE owners == {k \in DOMAIN chips : pin \in Numbers(chips[k])}
<1> DEFINE exact == {k \in DOMAIN chips : /\ chips[k].label = chips[i].label
                                          /\ chips[k].lines = chips[i].lines}
<1> DEFINE found == FindChipNameByLabelAndLines(chips[i].label, chips[i].lines)
<1>1. pin \in Int
  BY IrqAssumption
<1>2. owners \in SUBSET Nat /\ i \in owners
  BY BoardType
<1>3. Min(owners) = i
  <2>1. Min(owners) \in owners
    BY <1>2, MinIsLeast
  <2> QED
    BY <2>1, <1>1, OneOwner
<1>4. found \in exact
  <2>1. exact \in SUBSET (1..Len(chips)) /\ exact # {} /\ Len(chips) \in Nat
    BY BoardType
  <2>2. found = Earliest(exact)
    <3>1. exact = {k \in {l \in DOMAIN chips : chips[l].label = chips[i].label} :
                     chips[k].lines = chips[i].lines}
      OBVIOUS
    <3> QED
      BY <2>1, <3>1 DEF FindChipNameByLabelAndLines
  <2> HIDE DEF exact, found
  <2> QED
    BY <2>1, <2>2, EarliestIsOne
<1>5. ResolveIrqTargetFromGlobal(pin) = [chip |-> found, offset |-> pin - chips[i].base]
  BY <1>2, <1>3 DEF ResolveIrqTargetFromGlobal
<1>6. found \in 1..Len(chips)
  BY <1>4, BoardType
<1>7. pin - chips[i].base \in Nat
  BY <1>1, BoardType DEF Numbers
<1> HIDE DEF found
<1> QED
  BY <1>4, <1>5, <1>6, <1>7, BoardType DEF NoTarget

(* An offset resolves to a chip with so many lines, the board's own GPIO   *)
(* chip if one has.                                                        *)
LEMMA OffsetTarget ==
  ASSUME chips \in Boards, NEW offset \in Nat,
         ResolveIrqTargetFromOffset(offset) # NoTarget
  PROVE  LET t == ResolveIrqTargetFromOffset(offset)
         IN  /\ t.chip \in DOMAIN chips
             /\ t.offset = offset
             /\ offset < chips[t.chip].lines
             /\ (\E k \in DOMAIN chips : /\ chips[k].label \in PreferredLabels
                                         /\ offset < chips[k].lines)
                  => chips[t.chip].label \in PreferredLabels
<1> DEFINE large == {k \in DOMAIN chips : offset < chips[k].lines}
<1> DEFINE preferred == {k \in large : chips[k].label \in PreferredLabels}
<1> DEFINE candidates == IF preferred # {} THEN preferred ELSE large
<1>1. candidates \in SUBSET (1..Len(chips)) /\ Len(chips) \in Nat
  BY BoardType
<1>2. /\ Earliest(candidates) # 0
      /\ ResolveIrqTargetFromOffset(offset) = [chip |-> Earliest(candidates), offset |-> offset]
  BY DEF ResolveIrqTargetFromOffset
<1>3. Earliest(candidates) \in candidates
  <2> HIDE DEF candidates
  <2> QED
    BY <1>1, <1>2, EarliestIsOne
<1>4. /\ Earliest(candidates) \in large
      /\ preferred # {} => Earliest(candidates) \in preferred
  BY <1>3
<1>5. /\ Earliest(candidates) \in DOMAIN chips
      /\ offset < chips[Earliest(candidates)].lines
      /\ preferred # {} => chips[Earliest(candidates)].label \in PreferredLabels
  BY <1>4
<1>6. (\E k \in DOMAIN chips : /\ chips[k].label \in PreferredLabels
                               /\ offset < chips[k].lines) => preferred # {}
  OBVIOUS
<1> HIDE DEF candidates, preferred, large
<1> QED
  BY <1>2, <1>5, <1>6

-----------------------------------------------------------------------------
(* The line.                                                               *)

(* A target that was resolved is a chip of the board and an offset on it.  *)
LEMMA TargetType ==
  ASSUME chips \in Boards, NEW pin \in Pins, pin >= 0, ResolveIrqTarget(pin) # NoTarget
  PROVE  /\ ResolveIrqTarget(pin).chip \in 1..Len(chips)
         /\ ResolveIrqTarget(pin).offset \in Nat
<1>1. pin \in Nat /\ DOMAIN chips = 1..Len(chips)
  BY IrqAssumption, BoardType
<1>2. CASE \E i \in DOMAIN chips : pin \in Numbers(chips[i])
  <2>1. PICK i \in DOMAIN chips : pin \in Numbers(chips[i])
    BY <1>2
  <2>2. /\ ResolveIrqTargetFromGlobal(pin) # NoTarget
        /\ ResolveIrqTargetFromGlobal(pin).chip \in DOMAIN chips
        /\ ResolveIrqTargetFromGlobal(pin).offset \in Nat
    BY <2>1, GlobalTarget
  <2> QED
    BY <1>1, <2>2 DEF ResolveIrqTarget
<1>3. CASE ~ \E i \in DOMAIN chips : pin \in Numbers(chips[i])
  <2>1. ResolveIrqTargetFromGlobal(pin) = NoTarget
    BY <1>3 DEF ResolveIrqTargetFromGlobal
  <2>2. ResolveIrqTarget(pin) = ResolveIrqTargetFromOffset(pin)
    BY <2>1 DEF ResolveIrqTarget
  <2> QED
    BY <1>1, <2>2, OffsetTarget
<1> QED
  BY <1>2, <1>3

(* What the constructor holds at each of its steps. *)
LineInv ==
  /\ chips \in Boards
  /\ sysfs \in BOOLEAN
  /\ irq_pin_ \in Pins
  /\ pc \in {"start", "resolved", "opened", "got_line", "idle", "aborted",
             "check", "clock", "sleep", "wait", "read_event"}
  /\ requested \in BOOLEAN
  /\ irq_chip_ \in 0..Len(chips)
  /\ irq_line_ \in Nat \cup {-1}
  /\ pc \in {"resolved", "opened", "got_line"} \/ irq_line_ # -1 =>
       /\ irq_pin_ >= 0
       /\ target = ResolveIrqTarget(irq_pin_)
       /\ target # NoTarget
  /\ Constructing => /\ ~requested
                     /\ irq_line_ # -1 <=> pc = "got_line"
                     /\ irq_chip_ # 0 <=> pc \in {"opened", "got_line"}
  /\ pc \in {"resolved", "opened", "got_line"} => sysfs
  /\ irq_chip_ # 0 => irq_chip_ = target.chip
  /\ irq_line_ # -1 => /\ irq_chip_ # 0
                       /\ irq_line_ = target.offset
                       /\ irq_line_ < chips[irq_chip_].lines
  /\ PollsOrOwnsLine

LEMMA LineInit == Init => LineInv
<1> SUFFICES ASSUME Init PROVE LineInv
  OBVIOUS
<1>1. chips \in Boards /\ Len(chips) \in Nat
  BY BoardType DEF Init, IrqInit
<1>2. sysfs \in BOOLEAN /\ requested \in BOOLEAN /\ ~requested
  BY IrqAssumption, Zenon DEF Init, IrqInit
<1> QED
  BY <1>1, <1>2, IrqAssumption DEF Init, IrqInit, LineInv, Constructing, PollsOrOwnsLine

(* After the constructor the line does not change. *)
LEMMA LineKept ==
  ASSUME LineInv, UNCHANGED irqVars, ~Constructing, ~Constructing',
         pc' \in {"idle", "check", "clock", "sleep", "wait", "read_event"},
         pc # "aborted"
  PROVE  LineInv'
<1>1. ResolveIrqTarget(irq_pin_)' = ResolveIrqTarget(irq_pin_)
  BY DEF irqVars, boardVars, ResolveIrqTarget, ResolveIrqTargetFromGlobal,
         ResolveIrqTargetFromOffset, FindChipNameByLabelAndLines
<1> QED
  BY <1>1 DEF LineInv, irqVars, boardVars, lineVars, Constructing, PollsOrOwnsLine

LEMMA LineStep ==
  ASSUME LineInv, InitializeIrq
  PROVE  LineInv'
<1>1. UNCHANGED boardVars /\ Constructing
  BY DEF InitializeIrq, ResolveTarget, OpenChip, GetLine, RequestEdges, Constructing
<1>2. ResolveIrqTarget(irq_pin_)' = ResolveIrqTarget(irq_pin_)
  BY <1>1 DEF boardVars, ResolveIrqTarget, ResolveIrqTargetFromGlobal,
              ResolveIrqTargetFromOffset, FindChipNameByLabelAndLines
<1>3. /\ chips \in Boards /\ Len(chips) \in Nat
      /\ irq_pin_ \in Int
  BY BoardType, IrqAssumption DEF LineInv
<1>4. CASE ResolveTarget
  BY <1>1, <1>2, <1>3, <1>4
     DEF ResolveTarget, LineInv, boardVars, lineVars, Constructing, PollsOrOwnsLine
<1>5. CASE OpenChip
  <2>1. target.chip \in 1..Len(chips)
    BY <1>3, <1>5, TargetType DEF OpenChip, LineInv
  <2> QED
    BY <1>1, <1>2, <1>3, <1>5, <2>1
       DEF OpenChip, LineInv, boardVars, Constructing, PollsOrOwnsLine
<1>6. CASE GetLine
  <2>1. target.offset \in Nat
    BY <1>3, <1>6, TargetType DEF GetLine, LineInv
  <2>2. CleanupIrq => requested' \in BOOLEAN /\ ~requested'
    BY Zenon DEF CleanupIrq
  <2> QED
    BY <1>1, <1>2, <1>3, <1>6, <2>1, <2>2
       DEF GetLine, CleanupIrq, LineInv, boardVars, Constructing, PollsOrOwnsLine
<1>7. CASE RequestEdges
  <2>1. CleanupIrq => requested' \in BOOLEAN /\ ~requested'
    BY Zenon DEF CleanupIrq
  <2>2. ~CleanupIrq => requested' \in BOOLEAN /\ requested'
    BY <1>7, Zenon DEF RequestEdges
  <2> QED
    BY <1>1, <1>2, <1>3, <1>7, <2>1, <2>2
     DEF RequestEdges, CleanupIrq, LineInv, boardVars, Constructing, PollsOrOwnsLine
<1> QED
  BY <1>4, <1>5, <1>6, <1>7 DEF InitializeIrq

-----------------------------------------------------------------------------
(* The wait.                                                               *)

(* In Receive the pin is low only for frames that are unread, which is     *)
(* what makes the next frame's edge certain; and the deadline is where it  *)
(* was when the call began.                                                *)
WaitInv ==
  /\ unread \in 0..RxFifoDepth
  /\ pin_low \in BOOLEAN
  /\ listening \in BOOLEAN
  /\ edges \in 0..MaxEdges
  /\ timeout_us \in Timeouts \cup {0}
  /\ elapsed \in Nat
  /\ wait_left \in Nat
  /\ result \in {"None", "Success", "Timeout"}
  /\ line_failed \in BOOLEAN
  /\ Waiting => result = "None" /\ ~line_failed
  /\ Waiting /\ pin_low => unread > 0
  /\ pc \in {"wait", "read_event"} => irq_line_ # -1
  /\ pc = "sleep" => irq_line_ = -1
  /\ pc = "read_event" => edges > 0
  /\ Constructing \/ pc = "aborted" => timeout_us = 0 /\ ~listening
  /\ timeout_us = 0 => elapsed = 0 /\ (pc = "wait" => wait_left = 0)
  /\ timeout_us # 0 =>
       /\ pc = "wait" => elapsed + wait_left = timeout_us
       /\ pc = "sleep" => elapsed <= timeout_us
  /\ ReturnsInTime
  /\ pc \in {"clock", "wait"} /\ irq_line_ # -1 /\ unread > 0 => edges > 0
  /\ NoEarlyTimeout

IInv == LineInv /\ WaitInv

LEMMA WaitInit == Init => WaitInv
<1> SUFFICES ASSUME Init PROVE WaitInv
  OBVIOUS
<1>1. /\ pin_low \in BOOLEAN /\ ~pin_low
      /\ listening \in BOOLEAN /\ ~listening
      /\ line_failed \in BOOLEAN /\ ~line_failed
  BY Zenon DEF Init
<1> QED
  BY <1>1, RxReadyAssumption
   DEF Init, IrqInit, WaitInv, Waiting, Constructing, ReturnsInTime,
       NeverSleepsOnFrame, NoEarlyTimeout

LEMMA WaitStep ==
  ASSUME IInv, Next
  PROVE  WaitInv'
<1> USE DEF IInv, WaitInv, Waiting, Constructing, ReturnsInTime, NeverSleepsOnFrame,
            NoEarlyTimeout, PastDeadline
<1>1. /\ \A t \in Timeouts \cup {0} : t \in Nat
      /\ RxFifoDepth \in Nat /\ RxFifoDepth > 0
      /\ MaxEdges \in Nat /\ MaxEdges > 0
  BY RxReadyAssumption
<1>2. ASSUME QueueEdge
      PROVE  /\ edges' \in 0..MaxEdges
             /\ edges' >= edges
             /\ requested /\ ~pin_low => edges' > 0
  <2>1. Min({edges + 1, MaxEdges}) \in {edges + 1, MaxEdges}
    <3>1. {edges + 1, MaxEdges} \in SUBSET Nat /\ {edges + 1, MaxEdges} # {}
      BY <1>1
    <3> QED
      BY <3>1, MinIsLeast
  <2>2. Min({edges + 1, MaxEdges}) <= edges + 1 /\ Min({edges + 1, MaxEdges}) <= MaxEdges
    <3>1. {edges + 1, MaxEdges} \in SUBSET Nat /\ {edges + 1, MaxEdges} # {}
      BY <1>1
    <3> QED
      BY <3>1, MinIsLeast
  <2> QED
    BY <1>1, <1>2, <2>1, <2>2 DEF QueueEdge
<1>3. CASE InitializeIrq /\ UNCHANGED <<chipVars, callVars>>
  BY <1>1, <1>3 DEF InitializeIrq, ResolveTarget, OpenChip, GetLine, RequestEdges,
                    chipVars, callVars, boardVars, lineVars
<1>4. CASE StartReceive
  <2>1. /\ pin_low' \in BOOLEAN /\ ~pin_low'
        /\ listening' \in BOOLEAN
        /\ line_failed' \in BOOLEAN /\ ~line_failed'
    BY <1>4, Zenon DEF StartReceive
  <2> QED
    BY <1>1, <1>4, <2>1 DEF StartReceive, irqVars, lineVars
<1>5. CASE FindFrame
  <2>1. pin_low' \in BOOLEAN /\ ~pin_low'
    BY <1>5, Zenon DEF FindFrame
  <2> QED
    BY <1>1, <1>5, <2>1 DEF FindFrame, Return, irqVars, lineVars
<1>6. CASE FindNothing
  BY <1>1, <1>6 DEF FindNothing, irqVars, lineVars, chipVars, callVars
<1>17. CASE TestClock
  BY <1>1, <1>17 DEF TestClock, Return, Remaining, irqVars, lineVars, chipVars
<1>7. CASE Sleep
  BY <1>1, <1>7 DEF Sleep, irqVars, lineVars, chipVars
<1>8. CASE Tick
  BY <1>1, <1>8 DEF Tick, irqVars, lineVars, chipVars
<1>9. CASE WaitTimesOut
  BY <1>1, <1>9 DEF WaitTimesOut, Return, irqVars, lineVars, chipVars
<1>10. CASE WaitReturns
  BY <1>1, <1>10 DEF WaitReturns, irqVars, lineVars, chipVars, callVars
<1>11. CASE ReadEvent
  BY <1>1, <1>11 DEF ReadEvent, irqVars, lineVars, callVars
<1>12. CASE Interrupted
  BY <1>1, <1>12 DEF Interrupted, irqVars, lineVars, chipVars, callVars
<1>13. CASE LineFails
  BY <1>1, <1>13 DEF LineFails, Return, irqVars, lineVars, chipVars,
                     LineInv, PollsOrOwnsLine
<1>14. CASE Send
  <2>1. pin_low' \in BOOLEAN /\ ~pin_low' /\ listening' \in BOOLEAN
    BY <1>14, Zenon DEF Send
  <2> QED
    BY <1>1, <1>2, <1>14, <2>1 DEF Send, irqVars, lineVars, callVars
<1>15. CASE FlushRx
  BY <1>1, <1>15 DEF FlushRx, irqVars, lineVars, callVars
<1>16. CASE FrameArrives
  BY <1>1, <1>2, <1>16 DEF FrameArrives, irqVars, lineVars, callVars,
                           LineInv, PollsOrOwnsLine
<1> QED
  BY <1>3, <1>4, <1>5, <1>6, <1>7, <1>8, <1>9, <1>10, <1>11, <1>12, <1>13, <1>14,
     <1>15, <1>16, <1>17 DEF Next, WaitForRxReady

(* LineInv and WaitInv are inductive together. *)
LEMMA IInvStep == IInv /\ [Next]_vars => IInv'
<1> SUFFICES ASSUME IInv, [Next]_vars PROVE IInv'
  OBVIOUS
<1>1. CASE Next
  <2>1. WaitInv'
    BY <1>1, WaitStep
  <2>2. LineInv'
    <3>1. CASE InitializeIrq
      BY <3>1, LineStep DEF IInv
    <3>2. CASE ~InitializeIrq
      <4>1. UNCHANGED irqVars
        BY <1>1, <3>2
           DEF Next, StartReceive, WaitForRxReady, FindFrame, FindNothing, TestClock, Sleep,
               Tick, WaitTimesOut, WaitReturns, ReadEvent, Interrupted, LineFails, Send,
               FlushRx, FrameArrives
      <4>2. /\ ~Constructing /\ ~Constructing'
            /\ pc' \in {"idle", "check", "clock", "sleep", "wait", "read_event"}
            /\ pc # "aborted"
        BY <1>1, <3>2
           DEF IInv, LineInv, WaitInv, Next, StartReceive, WaitForRxReady, FindFrame,
               FindNothing, TestClock, Return, Sleep, Tick, WaitTimesOut, WaitReturns, ReadEvent,
               Interrupted, LineFails, Send, FlushRx, FrameArrives, Constructing
      <4> QED
        BY <4>1, <4>2, LineKept DEF IInv
    <3> QED
      BY <3>1, <3>2
  <2> QED
    BY <2>1, <2>2 DEF IInv
<1>2. CASE UNCHANGED vars
  <2>1. ResolveIrqTarget(irq_pin_)' = ResolveIrqTarget(irq_pin_)
    BY <1>2 DEF vars, irqVars, boardVars, ResolveIrqTarget, ResolveIrqTargetFromGlobal,
                ResolveIrqTargetFromOffset, FindChipNameByLabelAndLines
  <2> QED
    BY <1>2, <2>1 DEF IInv, LineInv, WaitInv, vars, irqVars, boardVars, lineVars, chipVars,
           callVars, Waiting, Constructing, PollsOrOwnsLine, ReturnsInTime,
           NeverSleepsOnFrame, NoEarlyTimeout
<1> QED
  BY <1>1, <1>2

THEOREM IInvHolds == Spec => []IInv
<1>1. Init => IInv
  BY LineInit, WaitInit DEF IInv
<1> QED
  BY <1>1, IInvStep, PTL DEF Spec

-----------------------------------------------------------------------------
(* The variables have their types, whatever step of the set-up fails.      *)
THEOREM TypesHold == Spec => []TypeOK
<1>1. IInv => TypeOK
  <2> SUFFICES ASSUME IInv PROVE TypeOK
    OBVIOUS
  <2>1. irq_chip_ # 0 => chips[irq_chip_].lines \in Nat
    BY BoardType DEF IInv, LineInv
  <2> QED
    BY <2>1 DEF IInv, LineInv, WaitInv, TypeOK
<1> QED
  BY <1>1, IInvHolds, PTL

(* The constructor leaves the line with its edges requested or nothing.    *)
THEOREM LineIsOwnedOrReleased == Spec => []PollsOrOwnsLine
<1>1. IInv => PollsOrOwnsLine
  BY DEF IInv, LineInv
<1> QED
  BY <1>1, IInvHolds, PTL

(* No edge is lost between radio_.available and the wait, whatever the     *)
(* size of the kernel's queue of edges and of the radio's FIFO.            *)
THEOREM WaitIsWoken == Spec => []NeverSleepsOnFrame
<1>1. IInv => NeverSleepsOnFrame
  BY DEF IInv, LineInv, WaitInv, PollsOrOwnsLine, Constructing, NeverSleepsOnFrame
<1> QED
  BY <1>1, IInvHolds, PTL

(* Receive does not give up early: stale edges, EINTR and the node's own    *)
(* transmissions wake WaitForRxReady, but only the deadline ends it.       *)
THEOREM TimeoutIsNotEarly == Spec => []NoEarlyTimeout
<1>1. IInv => NoEarlyTimeout
  BY DEF IInv, WaitInv
<1> QED
  BY <1>1, IInvHolds, PTL

(* Nor does it stay beyond its deadline: what wakes it does not start the  *)
(* timeout anew.                                                           *)
THEOREM TimeoutIsNotLate == Spec => []ReturnsInTime
<1>1. IInv => ReturnsInTime
  BY DEF IInv, WaitInv
<1> QED
  BY <1>1, IInvHolds, PTL

(* A timeout means that no frame is left unread that came before the last  *)
(* look at the radio or before the end of the event wait, or the line has  *)
(* failed.                                                                 *)
THEOREM TimeoutMeansEmpty == Spec => GivesUpOnlyOnEmpty
<1>1. IInv /\ [Next]_vars =>
        [result # "Timeout" /\ result' = "Timeout" =>
           unread = 0 \/ line_failed' \/ LookedForTheLastTime]_vars
  <2> SUFFICES ASSUME IInv, Next, result # "Timeout", result' = "Timeout"
               PROVE  unread = 0 \/ line_failed' \/ LookedForTheLastTime
    OBVIOUS
  <2>1. TestClock \/ WaitTimesOut \/ LineFails
    BY DEF Next, StartReceive, WaitForRxReady, FindFrame, FindNothing, Return, Sleep,
           Tick, WaitReturns, ReadEvent, Interrupted, Send, FlushRx, FrameArrives,
           callVars
  <2>2. CASE TestClock
    BY <2>2 DEF TestClock, LookedForTheLastTime
  <2>3. CASE WaitTimesOut
    BY <2>3 DEF WaitTimesOut, IInv, LineInv, WaitInv, PollsOrOwnsLine
  <2>4. CASE LineFails
    BY <2>4 DEF LineFails, IInv, LineInv, WaitInv, PollsOrOwnsLine, Constructing
  <2> QED
    BY <2>1, <2>2, <2>3, <2>4
<1> QED
  BY <1>1, IInvHolds, PTL DEF Spec, GivesUpOnlyOnEmpty

(* On every board, also one with chips of the same label and size, which   *)
(* the code cannot tell apart: the line has the offset that was asked for, *)
(* on the chip that was asked for or on such a twin of it.                 *)
THEOREM PinIsClaimedUpToTwins == Spec => []ClaimsPinUpToTwins
<1>1. IInv => ClaimsPinUpToTwins
  <2> SUFFICES ASSUME IInv, requested PROVE ClaimsPinUpToTwins
    BY DEF ClaimsPinUpToTwins
  <2>1. /\ chips \in Boards /\ irq_pin_ \in Pins /\ irq_pin_ \in Nat
        /\ target = ResolveIrqTarget(irq_pin_) /\ target # NoTarget
        /\ irq_chip_ = target.chip /\ irq_line_ = target.offset
    BY IrqAssumption DEF IInv, LineInv, PollsOrOwnsLine, Constructing
  <2>2. CASE \E i \in DOMAIN chips : irq_pin_ \in Numbers(chips[i])
    <3>1. ASSUME NEW i \in DOMAIN chips, irq_pin_ \in Numbers(chips[i])
          PROVE  /\ irq_pin_ = chips[i].base + irq_line_
                 /\ chips[irq_chip_].label = chips[i].label
                 /\ chips[irq_chip_].lines = chips[i].lines
      <4>1. /\ ResolveIrqTargetFromGlobal(irq_pin_) # NoTarget
            /\ ResolveIrqTargetFromGlobal(irq_pin_).offset = irq_pin_ - chips[i].base
            /\ chips[ResolveIrqTargetFromGlobal(irq_pin_).chip].label = chips[i].label
            /\ chips[ResolveIrqTargetFromGlobal(irq_pin_).chip].lines = chips[i].lines
        BY <2>1, <3>1, GlobalTarget
      <4>2. target = ResolveIrqTargetFromGlobal(irq_pin_)
        BY <2>1, <4>1 DEF ResolveIrqTarget
      <4>3. chips[i].base \in Nat
        BY <2>1, BoardType
      <4> QED
        BY <2>1, <4>1, <4>2, <4>3
    <3> QED
      BY <2>2, <3>1 DEF ClaimsPinUpToTwins
  <2>3. CASE ~ \E i \in DOMAIN chips : irq_pin_ \in Numbers(chips[i])
    <3>1. target = ResolveIrqTargetFromOffset(irq_pin_)
      BY <2>1, <2>3 DEF ResolveIrqTarget, ResolveIrqTargetFromGlobal
    <3> QED
      BY <2>1, <2>3, <3>1, OffsetTarget DEF ClaimsPinUpToTwins
  <2> QED
    BY <2>2, <2>3
<1> QED
  BY <1>1, IInvHolds, PTL
=============================================================================
