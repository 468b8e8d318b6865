------------------------------ MODULE MCNerfnet ------------------------------
(* The traffic of the model-checking runs: the lengths, in bytes, of the   *)
(* packets each TUN device yields.                                         *)
EXTENDS Session

Lengths(p, s) == [n \in Nodes |-> IF n = Self THEN p ELSE s]

NoTraffic == Lengths(<<>>, <<>>)
BothWays == Lengths(<<3, 1>>, <<2>>)
LongUp == Lengths(<<3>>, <<2>>)
OneEach == Lengths(<<2>>, <<1>>)
ShortEach == Lengths(<<1>>, <<1>>)
TwoUp == Lengths(<<>>, <<1, 1>>)
Wrapping == Lengths(<<1, 1, 1>>, <<1>>)
=============================================================================
