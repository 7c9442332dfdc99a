------------------------------ MODULE MCDrawing ------------------------------
(* Drawing with a few points, for TLC. *)
EXTENDS Drawing

\* Inside, on the left edge, far enough for two bytes, and beyond the edge.
MCPoints == {<<1, 2>>, <<0, 3>>, <<258, 1>>, <<-1, 4>>}
=============================================================================
