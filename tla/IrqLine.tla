------------------------------- MODULE IrqLine -------------------------------
(***************************************************************************)
(* Which GPIO line --irq_pin names, and how the constructor of             *)
(* RadioInterface claims it (src/nerfnet/net/radio_interface.cc).          *)
(*                                                                         *)
(* The GPIO chips of a board are a sequence in the order in which libgpiod *)
(* lists them. /sys/class/gpio shows the same chips, with the first number *)
(* and the count of their lines. A definition marked "Mutant" is the next  *)
(* one with a fault, and not part of the model.                            *)
(***************************************************************************)
EXTENDS Integers, Sequences, FiniteSetsExt

CONSTANTS
  Labels,            (* chip labels                                        *)
  PreferredLabels,   (* those that IsPreferredGpioChipLabel accepts        *)
  Boards,            (* the boards: sequences of chips                     *)
  Pins,              (* values of --irq_pin; negative: not given           *)
  SysfsMayMiss       (* the kernel may be built without /sys/class/gpio    *)

Chip == [label: Labels, lines: Nat \ {0}, base: Nat]

(* No two chips of a board have a line number in common. *)
ASSUME IrqAssumption ==
  /\ PreferredLabels \subseteq Labels
  /\ Boards \subseteq Seq(Chip)
  /\ \A board \in Boards : \A i, j \in DOMAIN board :
        i < j => \/ board[i].base + board[i].lines <= board[j].base
                 \/ board[j].base + board[j].lines <= board[i].base
  /\ Pins \subseteq Int
  /\ SysfsMayMiss \in BOOLEAN

VARIABLES
  chips,       (* the board's chips                                        *)
  sysfs,       (* it has /sys/class/gpio                                   *)
  irq_pin_,
  target,      (* the line InitializeIrq resolved, or NoTarget             *)
  irq_chip_,   (* the index of the chip that is open, or 0: nullptr        *)
  irq_line_,   (* the offset of the line on it, or -1: nullptr             *)
  requested,   (* the kernel queues the falling edges of irq_line_         *)
  pc           (* how far the constructor is; "idle" when it is done, and  *)
               (* "aborted" when an exception has ended the program        *)

boardVars == <<chips, sysfs, irq_pin_>>
lineVars == <<irq_chip_, irq_line_, requested>>
irqVars == <<boardVars, target, lineVars>>

NoTarget == [chip |-> 0, offset |-> 0]

-----------------------------------------------------------------------------
(* Resolving the pin.                                                      *)

Earliest(indices) == IF indices = {} THEN 0 ELSE Min(indices)

(* FindChipNameByLabelAndLines; 0 stands for no value. *)
FindChipNameByLabelAndLines(label, lines) ==
  LET labelled == {i \in DOMAIN chips : chips[i].label = label}
      exact == {i \in labelled : chips[i].lines = lines}
  IN  Earliest(IF exact # {} THEN exact ELSE labelled)

Numbers(chip) == chip.base .. (chip.base + chip.lines - 1)

(* Mutant: the number is taken for an offset. *)
ResolveIrqTargetWithoutBase(pin) ==
  LET owners == {i \in DOMAIN chips : pin \in Numbers(chips[i])}
  IN  IF owners = {} THEN NoTarget
      ELSE LET own == chips[Min(owners)]
           IN  [chip |-> FindChipNameByLabelAndLines(own.label, own.lines), offset |-> pin]

(* The chip that holds global number pin, looked up again by its label. At *)
(* most one chip does, so the order of the directory does not matter.      *)
ResolveIrqTargetFromGlobal(pin) ==
  LET owners == {i \in DOMAIN chips : pin \in Numbers(chips[i])}
  IN  IF owners = {} THEN NoTarget
      ELSE LET own == chips[Min(owners)]
           IN  [chip |-> FindChipNameByLabelAndLines(own.label, own.lines),
                offset |-> pin - own.base]

(* The first chip that has so many lines, one with a preferred label first. *)
ResolveIrqTargetFromOffset(offset) ==
  LET large == {i \in DOMAIN chips : offset < chips[i].lines}
      preferred == {i \in large : chips[i].label \in PreferredLabels}
      found == Earliest(IF preferred # {} THEN preferred ELSE large)
  IN  IF found = 0 THEN NoTarget ELSE [chip |-> found, offset |-> offset]

ResolveIrqTarget(pin) ==
  IF ResolveIrqTargetFromGlobal(pin) # NoTarget
  THEN ResolveIrqTargetFromGlobal(pin) ELSE ResolveIrqTargetFromOffset(pin)

-----------------------------------------------------------------------------
(* InitializeIrq, one action per call that can fail. When it returns false *)
(* the constructor goes on, to poll the radio.                             *)

(* Mutant: what was opened stays. *)
NoCleanup == UNCHANGED lineVars

CleanupIrq == irq_chip_' = 0 /\ irq_line_' = -1 /\ requested' = FALSE

(* directory_iterator throws when there is no directory to list, and       *)
(* nothing catches it.                                                     *)
ResolveTarget ==
  /\ pc = "start"
  /\ UNCHANGED <<boardVars, lineVars>>
  /\ IF irq_pin_ < 0
     THEN pc' = "idle" /\ UNCHANGED target
     ELSE IF ~sysfs
     THEN pc' = "aborted" /\ UNCHANGED target
     ELSE /\ target' = ResolveIrqTarget(irq_pin_)
          /\ pc' = IF target' = NoTarget THEN "idle" ELSE "resolved"

OpenChip ==
  /\ pc = "resolved"
  /\ UNCHANGED <<boardVars, target, irq_line_, requested>>
  /\ \/ pc' = "opened" /\ irq_chip_' = target.chip
     \/ pc' = "idle" /\ UNCHANGED irq_chip_

GetLine ==
  /\ pc = "opened"
  /\ UNCHANGED <<boardVars, target>>
  /\ \/ /\ target.offset < chips[irq_chip_].lines
        /\ irq_line_' = target.offset
        /\ pc' = "got_line"
        /\ UNCHANGED <<irq_chip_, requested>>
     \/ CleanupIrq /\ pc' = "idle"

(* Another process may hold the line. *)
RequestEdges ==
  /\ pc = "got_line"
  /\ UNCHANGED <<boardVars, target>>
  /\ \/ requested' = TRUE /\ UNCHANGED <<irq_chip_, irq_line_>>
     \/ CleanupIrq
  /\ pc' = "idle"

InitializeIrq == ResolveTarget \/ OpenChip \/ GetLine \/ RequestEdges

IrqInit ==
  /\ chips \in Boards
  /\ sysfs \in {TRUE, ~SysfsMayMiss}
  /\ irq_pin_ \in Pins
  /\ target = NoTarget
  /\ irq_chip_ = 0
  /\ irq_line_ = -1
  /\ requested = FALSE
  /\ pc = "start"

Constructing == pc \in {"start", "resolved", "opened", "got_line"}

-----------------------------------------------------------------------------
(* However InitializeIrq goes, the program is left in one of three ways:   *)
(* the line's edges are requested; nothing is held and irq_line_ is null,  *)
(* which is how WaitForRxReady knows that it has to poll; or it has ended, *)
(* just when a pin was asked for and there is no /sys/class/gpio to list.  *)
PollsOrOwnsLine ==
  ~Constructing =>
    /\ pc = "aborted" <=> irq_pin_ >= 0 /\ ~sysfs
    /\ \/ requested /\ irq_chip_ # 0 /\ irq_line_ # -1
       \/ ~requested /\ irq_chip_ = 0 /\ irq_line_ = -1

(* What the requested line has to do with --irq_pin. A number that is the  *)
(* global number of a line is always read as one, even if the offset is    *)
(* meant: the line then has the right offset, on a chip that is like the   *)
(* owner of the number in label and size, or is the owner. Any other       *)
(* number is an offset, on the board's own GPIO chip if that is so large.  *)
ClaimsPinUpToTwins ==
  requested =>
    LET own == chips[irq_chip_]
        owners == {i \in DOMAIN chips : irq_pin_ \in Numbers(chips[i])}
    IN  IF owners # {}
        THEN \A i \in owners : /\ irq_pin_ = chips[i].base + irq_line_
                               /\ own.label = chips[i].label
                               /\ own.lines = chips[i].lines
        ELSE /\ irq_pin_ = irq_line_
             /\ (\E i \in DOMAIN chips : /\ chips[i].label \in PreferredLabels
                                         /\ irq_pin_ < chips[i].lines)
                  => own.label \in PreferredLabels
=============================================================================
