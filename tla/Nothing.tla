------------------------------ MODULE Nothing ------------------------------
(***************************************************************************)
(* None, in the modules that share it: no event, plan, document or answer. *)
(***************************************************************************)
CONSTANT None

=============================================================================
