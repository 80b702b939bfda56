------------------------------ MODULE MCVanished ------------------------------
(* One client that receives (-R) and may lose the network. *)
EXTENDS ControlProtocol
CONSTANT a
MCMode == [t \in {a} |-> "RECEIVER"]
=============================================================================
