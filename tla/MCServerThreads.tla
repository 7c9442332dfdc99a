--------------------------- MODULE MCServerThreads ---------------------------
(* ServerThreads with a few clients and messages, for TLC. *)
EXTENDS ServerThreads
=============================================================================
