--------------------------- MODULE MC_TpReassembly ---------------------------
(* TpReassembly for TLC: two messages of two or three segments each, two     *)
(* receive threads.                                                          *)
EXTENDS TpReassembly, TLC

CONSTANTS m1, m2, q1, q2

OwnRequest == (m1 :> q1) @@ (m2 :> q2)

ReceiverSymmetry == Permutations(Receiver)
=============================================================================
