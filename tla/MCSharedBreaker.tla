--------------------------- MODULE MCSharedBreaker ---------------------------
(* Small instances of SharedBreaker for TLC. *)
EXTENDS SharedBreaker, TLC

CONSTANTS a1, a2, a3

=============================================================================
