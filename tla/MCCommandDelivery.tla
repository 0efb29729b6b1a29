------------------------- MODULE MCCommandDelivery -------------------------
(* Small instances of CommandDelivery for TLC. *)
EXTENDS CommandDelivery, TLC

CONSTANTS c1, f1, k1, p1, p2, q1

OneTarget == c1 :> {f1}
OneChunk == f1 :> k1
=============================================================================
