------------------------------ MODULE MCOneCall ------------------------------
(* One call, with a test in both directions. *)
EXTENDS IperfJni
CONSTANT a
MCMode == [t \in {a} |-> "BIDIR"]
=============================================================================
