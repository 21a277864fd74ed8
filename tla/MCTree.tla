------------------------------- MODULE MCTree -------------------------------
(* Clients and documents for model-checking Tree.                          *)
EXTENDS Tree
=============================================================================
