----------------------------- MODULE MCWirePath -----------------------------
(* An instance of WirePath that TLC checks, with the widths of the code. *)
EXTENDS WirePath

(* A packet of n bytes whose header says it has total. The rest of it is   *)
(* made of bytes that look like the beginning of a header.                 *)
V4(n, ihl, total) ==
  [i \in 1..n |-> CASE i = 1 -> 64 + ihl
                    [] i = 3 -> total \div 256
                    [] i = 4 -> total % 256
                    [] OTHER -> 69]
V6(n, total) ==
  [i \in 1..n |-> CASE i = 1 -> 96
                    [] i = 5 -> (total - 40) \div 256
                    [] i = 6 -> (total - 40) % 256
                    [] OTHER -> 96]

(* Lengths around one, two and three payloads, around the limit of a byte, *)
(* and around the size of the buffer.                                      *)
Lengths == {20, 26, 27, 28, 53, 54, 55, 81, 82, 255, 256, 257, 270, 282, 283, 284, 512, 513}

Malformed == {V4(19, 5, 19), V4(24, 4, 24), V4(59, 15, 59), V4(40, 5, 41), V4(40, 5, 39),
              V4(40, 10, 39), V6(39, 40), V6(41, 40), V6(41, 42), V4(3201, 5, 3201),
              <<64>>, [i \in 1..40 |-> 0]}

(* A packet that carries another, which begins where a fragment begins.    *)
Carrier(outer, inner, k) ==
  [i \in 1..Len(outer) |-> IF i > k /\ i <= k + Len(inner) THEN inner[i - k] ELSE outer[i]]

Carriers == {Carrier(V4(67, 5, 67), V4(40, 5, 40), 27),
             Carrier(V6(334, 334), V4(280, 5, 280), 54),
             Carrier(V4(90, 5, 90), V4(40, 5, 40), 27)}

MCTunPackets ==
  {V4(n, 5, n) : n \in Lengths} \cup {V4(60, 15, 60), V4(3200, 5, 3200)}
    \cup {V6(n, n) : n \in {40, 41, 54, 295, 296, 297, 310}} \cup Carriers \cup Malformed
=============================================================================
