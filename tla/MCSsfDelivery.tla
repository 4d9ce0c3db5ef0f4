--------------------------- MODULE MCSsfDelivery ---------------------------
(* Model checking SsfDelivery. *)
EXTENDS SsfDelivery, TLC
=============================================================================
