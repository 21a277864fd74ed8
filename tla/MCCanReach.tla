----------------------------- MODULE MCCanReach -----------------------------
(* can_reach over all parent functions of a small set of ids.              *)
EXTENDS CanReach
=============================================================================
