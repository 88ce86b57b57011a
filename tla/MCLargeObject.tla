--------------------------- MODULE MCLargeObject ---------------------------
(* Small instances of LargeObject for TLC. *)
EXTENDS LargeObject

CONSTANTS w1, w2, p1

=============================================================================
