----------------------------- MODULE MCBackground ----------------------------
(* Small pools for TLC. *)
EXTENDS Background
=============================================================================
