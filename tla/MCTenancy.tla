------------------------------ MODULE MCTenancy ------------------------------
(* A model-checking instance of Tenancy.                                      *)
EXTENDS Tenancy
=============================================================================
