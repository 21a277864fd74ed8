------------------------------ MODULE MCCalls ------------------------------
(* One tree and its listeners for model-checking Calls.                    *)
EXTENDS Calls
=============================================================================
