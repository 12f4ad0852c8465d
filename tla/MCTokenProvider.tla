--------------------------- MODULE MCTokenProvider ---------------------------
(* TokenProvider over a bounded clock. *)
EXTENDS TokenProvider
=============================================================================
