----------------------------- MODULE PacketQueue -----------------------------
(***************************************************************************)
(* What the sendback controller promises of the packets routed to one      *)
(* inner server: a packet is delivered at once, kept or lost; those kept   *)
(* are delivered from the oldest on, and may be lost, the oldest alone or  *)
(* all together.  None is delivered twice or after it was lost.            *)
(***************************************************************************)
EXTENDS Integers, Sequences

CONSTANT MaxPackets

VARIABLES
  next,       \* the next packet to be routed
  kept,       \* those kept, oldest first
  delivered   \* those delivered, in order

Init == next = 1 /\ kept = <<>> /\ delivered = <<>>

Route ==
  /\ next \in 1 .. MaxPackets
  /\ next' = next + 1
  /\ \/ delivered' = Append(delivered, next) /\ UNCHANGED kept
     \/ kept' = Append(kept, next) /\ UNCHANGED delivered
     \/ UNCHANGED <<kept, delivered>>

HandOver ==
  /\ kept # <<>>
  /\ kept' = Tail(kept) /\ delivered' = Append(delivered, Head(kept))
  /\ UNCHANGED next

Lose ==
  /\ kept # <<>>
  /\ kept' \in {Tail(kept), <<>>}
  /\ UNCHANGED <<next, delivered>>

Next == Route \/ HandOver \/ Lose

Spec == Init /\ [][Next]_<<next, kept, delivered>>
=============================================================================
