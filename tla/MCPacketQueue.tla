--------------------------- MODULE MCPacketQueue ---------------------------
(* The model checking of PacketQueue. *)
EXTENDS PacketQueue

\* Keys are only compared for equality.
Symmetry == Permutations(Source) \cup Permutations(Dest)
=============================================================================
