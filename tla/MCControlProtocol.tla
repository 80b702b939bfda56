-------------------------- MODULE MCControlProtocol --------------------------
(* Two clients: a sends, b receives. *)
EXTENDS ControlProtocol, TLC
CONSTANTS a, b
MCMode == (a :> "SENDER") @@ (b :> "RECEIVER")
=============================================================================
