--------------------------- MODULE MCToolApproval ---------------------------
(* ToolApproval on small sets of requests. *)
EXTENDS ToolApproval, TLC

\* Requests are interchangeable: their identity is only compared.
Symmetry == Permutations(Requests)
=============================================================================
