-------------------------------- MODULE MCDB --------------------------------
(* A small database for TLC. *)
EXTENDS DB, TLC

CONSTANTS k1, k2

=============================================================================
