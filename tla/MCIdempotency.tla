--------------------------- MODULE MCIdempotency ---------------------------
(* Instances of Idempotency for TLC.  Calls are model values; those that    *)
(* may be slow or die are chosen in the configurations.                     *)
EXTENDS Idempotency, TLC
=============================================================================
