------------------------------ MODULE MCHistory ------------------------------
(* One test whose log has two parts.                                          *)
EXTENDS LogHistory

MCPlans == <<2>>
=============================================================================
