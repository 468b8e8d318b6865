------------------------------ MODULE MCRxReady ------------------------------
(* Instances of RxReady that TLC checks. *)
EXTENDS RxReady

ChipOf(label, lines, base) == [label |-> label, lines |-> lines, base |-> base]

(* The SoC's own controller, before or after an expander whose lines have  *)
(* other numbers, a board with an expander only, and one with two          *)
(* expanders of a kind.                                                    *)
MCBoards == {
  <<ChipOf("pinctrl", 3, 2)>>,
  <<ChipOf("expander", 2, 6), ChipOf("pinctrl", 3, 2)>>,
  <<ChipOf("pinctrl", 2, 4), ChipOf("pinctrl", 3, 0)>>,
  <<ChipOf("expander", 2, 4)>>,
  <<ChipOf("expander", 2, 0), ChipOf("expander", 2, 4)>>}

MCPins == -1..7
=============================================================================
