----------------------------- MODULE PacketLink -----------------------------
(***************************************************************************)
(* What the link promises to the two IP stacks, without frames, sequence   *)
(* numbers or timeouts: in each direction a first-in first-out pipe of     *)
(* packets, in sessions. Within a session every packet is written once and *)
(* in order, though a write that fails loses that one packet. When a       *)
(* session ends, the packet that was under way may be lost, or be written  *)
(* a second time as the first of the next session. Packets are known by    *)
(* their number.                                                           *)
(***************************************************************************)
EXTENDS Naturals, Sequences

CONSTANTS
  Nodes,        (* the two ends                                            *)
  Other(_),     (* the end that is not n                                   *)
  Available,    (* Available[n]: how many packets n's TUN yields           *)
  Restarts,     (* the ends whose process may end and start again          *)
  FailingWriters (* the ends whose write to the TUN device may fail         *)

VARIABLES
  read,         (* read[n]: packets taken from n's TUN                     *)
  written,      (* written[n]: packets given to write on n's TUN in this   *)
                (* session                                                 *)
  delivered,    (* delivered[n]: packets ever written to n's TUN           *)
  lost          (* lost[n]: packets of n that a session's end may have     *)
                (* lost, or that the other end failed to write             *)

vars == <<read, written, delivered, lost>>

Init ==
  /\ read = [n \in Nodes |-> 0]
  /\ written = [n \in Nodes |-> <<>>]
  /\ delivered = [n \in Nodes |-> {}]
  /\ lost = [n \in Nodes |-> {}]

(* Every packet of n before the k-th is done with. *)
IsNext(n, k) == \A j \in 1..(k - 1) : j \in delivered[Other(n)] \cup lost[n]

Read(n) ==
  /\ read[n] < Available[n]
  /\ read' = [read EXCEPT ![n] = @ + 1]
  /\ UNCHANGED <<written, delivered, lost>>

(* Only the first packet of a session can be one that was written before,  *)
(* and then it is the last one that was.                                   *)
Write(n) ==
  \E k \in 1..read[Other(n)] :
    /\ IsNext(Other(n), k)
    /\ \A j \in delivered[n] : j <= k
    /\ written[n] # <<>> => k = written[n][Len(written[n])] + 1
    /\ written' = [written EXCEPT ![n] = Append(@, k)]
    /\ \/ delivered' = [delivered EXCEPT ![n] = @ \cup {k}] /\ UNCHANGED lost
       \/ /\ n \in FailingWriters
          /\ lost' = [lost EXCEPT ![Other(n)] = @ \cup {k}]
          /\ UNCHANGED delivered
    /\ UNCHANGED read

(* n starts its part of a new session, perhaps in the midst of a packet. *)
EndSession(n) ==
  /\ \/ UNCHANGED lost
     \/ \E k \in 1..read[n] : IsNext(n, k) /\ lost' = [lost EXCEPT ![n] = @ \cup {k}]
  /\ written' = [written EXCEPT ![n] = <<>>]
  /\ UNCHANGED <<read, delivered>>

(* n's process ends: all that it had queued is lost. *)
Restart(n) ==
  /\ n \in Restarts
  /\ \E S \in SUBSET (1..read[n]) : lost' = [lost EXCEPT ![n] = @ \cup S]
  /\ written' = [written EXCEPT ![n] = <<>>]
  /\ UNCHANGED <<read, delivered>>

Next == \E n \in Nodes : Read(n) \/ Write(n) \/ EndSession(n) \/ Restart(n)

Spec == Init /\ [][Next]_vars
=============================================================================
