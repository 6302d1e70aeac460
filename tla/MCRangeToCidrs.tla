--------------------------- MODULE MCRangeToCidrs ---------------------------
(* Every range of addresses of a few bits. *)
EXTENDS RangeToCidrs

MCSize == [p \in 0 .. Width |-> 2 ^ (Width - p)]
=============================================================================
