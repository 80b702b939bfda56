----------------------------- MODULE MCOneClient -----------------------------
(* One client with two streams in each direction. *)
EXTENDS ControlProtocol
CONSTANT a
MCMode == [t \in {a} |-> "BIDIR"]
=============================================================================
