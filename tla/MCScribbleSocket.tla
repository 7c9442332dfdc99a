-------------------------- MODULE MCScribbleSocket --------------------------
(* ScribbleSocket with a few messages, for TLC. *)
EXTENDS ScribbleSocket
=============================================================================
