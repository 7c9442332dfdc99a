---------------------------- MODULE MCConnection ----------------------------
(* Connection with a few messages in each direction, for TLC. *)
EXTENDS Connection
=============================================================================
